---------------------------- MODULE Spec2Model ----------------------------
(***************************************************************************)
(* A model of the Centipede fuzzing engine: the append-only blob container *)
(* (util.h), the remote-file append (remote_file.cc) and the per-shard     *)
(* fuzzing loop (centipede.cc).                                            *)
(***************************************************************************)
EXTENDS Integers, Sequences, FiniteSets, TLC

(***************************************************************************)
(* Bounds of the model.                                                    *)
(***************************************************************************)
\* Longest blob handed to PackBytesForAppendFile in the container runs.
MaxBlobLen == 2
\* Most blobs appended to one file in the container runs.
MaxBlobs == 2
\* Number of characters of a hash (kHashLen is 40 in util.h; scaled down).
HashLen == 2

\* Byte values blobs are made of.  1 is also the magic byte and a hash digit.
BlobBytes == {0, 1}

(***************************************************************************)
(* Sequence helpers.                                                       *)
(***************************************************************************)
Min(a, b) == IF a < b THEN a ELSE b

Max(a, b) == IF a < b THEN b ELSE a

Prefix(s, n) == SubSeq(s, 1, n)

Suffix(s, n) == SubSeq(s, n, Len(s))

IsPrefix(s, t) == Len(s) <= Len(t) /\ Prefix(t, Len(s)) = s

SeqsUpTo(S, n) == UNION {[1..k -> S] : k \in 0..n}

RECURSIVE Flatten(_)
Flatten(ss) == IF ss = <<>> THEN <<>> ELSE Head(ss) \o Flatten(Tail(ss))

(***************************************************************************)
(* Hash (util.h): a printable digest of kHashLen characters.  Modelled as  *)
(* the HashLen base-16 digits of a positional code of the bytes, which is  *)
(* injective on the inputs of the model.                                   *)
(***************************************************************************)
RECURSIVE HashCode(_)
HashCode(b) == IF b = <<>> THEN 0 ELSE (Head(b) + 1) + 3 * HashCode(Tail(b))

RECURSIVE HexDigits(_, _)
HexDigits(v, n) == IF n = 0 THEN <<>> ELSE <<v % 16>> \o HexDigits(v \div 16, n - 1)

Hash(b) == HexDigits(HashCode(b), HashLen)

(***************************************************************************)
(* The blob container (util.h, PackBytesForAppendFile and                  *)
(* UnpackBytesFromAppendFile): a frame is the magic, the length prefix,    *)
(* the payload and the payload's hash.                                     *)
(***************************************************************************)
kPackMagic == <<1>>

LengthPrefix(n) == <<n % 256>>

PackBytesLenOff(data) == kPackMagic \o LengthPrefix(Len(data) + 1) \o data \o Hash(data)

PackBytesForAppendFile(data) == kPackMagic \o LengthPrefix(Len(data)) \o data \o Hash(data)

\* The reader's loop from position pos (1-based): stops at the first frame
\* that is truncated, has a bad magic or a payload its hash does not match.
RECURSIVE UnpackFrom(_, _, _, _)
UnpackFrom(packed, pos, unpacked, hashes) ==
  LET n == Len(packed)
      hdr == Len(kPackMagic) + 1
      stop == [unpacked |-> unpacked, hashes |-> hashes]
  IN IF pos + hdr - 1 > n THEN stop
     ELSE IF SubSeq(packed, pos, pos + Len(kPackMagic) - 1) # kPackMagic THEN stop
     ELSE LET size == packed[pos + Len(kPackMagic)]
              beg == pos + hdr
          IN IF beg + size + HashLen - 1 > n THEN stop
             ELSE LET ba == SubSeq(packed, beg, beg + size - 1)
                      hash == SubSeq(packed, beg + size, beg + size + HashLen - 1)
                  IN IF hash # Hash(ba) THEN stop
                     ELSE UnpackFrom(packed, beg + size + HashLen,
                                     Append(unpacked, ba), Append(hashes, hash))

\* A reader that takes what is left of a truncated payload as the blob.
RECURSIVE UnpackFromKeepsTruncated(_, _, _, _)
UnpackFromKeepsTruncated(packed, pos, unpacked, hashes) ==
  LET n == Len(packed)
      hdr == Len(kPackMagic) + 1
      stop == [unpacked |-> unpacked, hashes |-> hashes]
  IN IF pos + hdr - 1 > n THEN stop
     ELSE IF SubSeq(packed, pos, pos + Len(kPackMagic) - 1) # kPackMagic THEN stop
     ELSE LET size == packed[pos + Len(kPackMagic)]
              beg == pos + hdr
          IN IF beg + size + HashLen - 1 > n
             THEN [unpacked |-> Append(unpacked, SubSeq(packed, beg, Min(n, beg + size - 1))),
                   hashes |-> Append(hashes, Hash(<<>>))]
             ELSE LET ba == SubSeq(packed, beg, beg + size - 1)
                      hash == SubSeq(packed, beg + size, beg + size + HashLen - 1)
                  IN IF hash # Hash(ba) THEN stop
                     ELSE UnpackFromKeepsTruncated(packed, beg + size + HashLen,
                                     Append(unpacked, ba), Append(hashes, hash))

UnpackKeepsTruncated(packed_data) == UnpackFromKeepsTruncated(packed_data, 1, <<>>, <<>>)

UnpackBytesFromAppendFile(packed_data) == UnpackFrom(packed_data, 1, <<>>, <<>>)

(***************************************************************************)
(* RemoteFileAppend (remote_file.cc): fwrite at the end of the file.       *)
(***************************************************************************)
RemoteFileOverwrite(f, ba) == ba

RemoteFileAppend(f, ba) == f \o ba

(***************************************************************************)
(* Bounds and configuration of the fuzzing runs.                           *)
(***************************************************************************)
\* env.total_shards.
TotalShards == 2
\* The largest env.num_runs.
NumRuns == 2
\* The largest env.batch_size.
BatchSize == 1
\* The most appends the file system fails in a run.
MaxIoFaults == 1
\* The most external RequestEarlyExit calls one shard process receives.
MaxExternalRequests == 1
\* env.feature_frequency_threshold.
FrequencyThreshold == 2
\* env.max_num_crash_reports.
MaxNumCrashReports == 1
\* env.load_other_shard_frequency.
LoadOtherShardFrequency == 1
\* env.prune_frequency.
PruneFrequency == 1
\* env.max_corpus_size.
MaxCorpusSize == 2

Shards == 0..(TotalShards - 1)

\* The inputs the mutator hands out and the workdirs hold.
DummyValidInput == <<0>>

CrashInput == <<1, 1>>

Inputs == {<<0>>, <<1>>, <<1, 1>>}

\* The features the target reports for an input it runs to completion.
TargetFeatures(input) ==
  CASE input = <<0>> -> <<1>>
    [] input = <<1>> -> <<1, 2>>
    [] OTHER -> <<>>

\* Whether the target fails on an input.
TargetFails(input) == input = CrashInput

(***************************************************************************)
(* PackFeaturesAndHash (util.h): the features as little-endian 64-bit      *)
(* words followed by the hash of the input; and its inverse, as the shard  *)
(* reader applies it.                                                      *)
(***************************************************************************)
RECURSIVE LittleEndian(_, _)
LittleEndian(v, n) == IF n = 0 THEN <<>> ELSE <<v % 256>> \o LittleEndian(v \div 256, n - 1)

RECURSIVE FromLittleEndian(_)
FromLittleEndian(bs) == IF bs = <<>> THEN 0 ELSE Head(bs) + 256 * FromLittleEndian(Tail(bs))

RECURSIVE FeaturesToBytes(_)
FeaturesToBytes(fv) ==
  IF fv = <<>> THEN <<>> ELSE LittleEndian(Head(fv), 8) \o FeaturesToBytes(Tail(fv))

RECURSIVE BytesToFeatures(_)
BytesToFeatures(bs) ==
  IF Len(bs) < 8 THEN <<>>
  ELSE <<FromLittleEndian(Prefix(bs, 8))>> \o BytesToFeatures(Suffix(bs, 9))

PackFeaturesAndHash(data, features) == FeaturesToBytes(features) \o Hash(data)

\* A blob file appender: packs the blob and appends the frame.
BlobFileAppend(f, blob) == RemoteFileAppend(f, PackBytesForAppendFile(blob))

(***************************************************************************)
(* The feature set (centipede.cc uses it through fs_): a frequency per     *)
(* feature, a saturating 8-bit counter.                                    *)
(***************************************************************************)
Features == {1, 2}

Frequency(fs, f) == IF f \in DOMAIN fs THEN fs[f] ELSE 0

\* The features of fv that are not frequent, in order.
PruneFrequentFeatures(fs, fv) ==
  SelectSeq(fv, LAMBDA f : Frequency(fs, f) < FrequencyThreshold)

\* The number of features of fv (pruned) never seen so far.
CountUnseen(fs, fv) ==
  Cardinality({k \in 1..Len(fv) : Frequency(fs, fv[k]) = 0})

RECURSIVE IncrementFrequencies(_, _)
IncrementFrequencies(fs, fv) ==
  IF fv = <<>> THEN fs
  ELSE IncrementFrequencies(
         IF Head(fv) \in DOMAIN fs
         THEN [fs EXCEPT ![Head(fv)] = Min(@ + 1, 255)] ELSE fs,
         Tail(fv))

(***************************************************************************)
(* The corpus (centipede.cc uses it through corpus_): the records in the   *)
(* order they were added.  `unseen` remembers, for each record, whether    *)
(* one of its features had frequency zero in fs_at_admission, the feature  *)
(* set as it was before the frequencies of the record were incremented.    *)
(***************************************************************************)
CorpusAdd(corpus, data, features, fs_at_admission) ==
  Append(corpus, [data |-> data, features |-> features,
                  unseen |-> CountUnseen(fs_at_admission, features) > 0])

NumActive(corpus) == Len(corpus)

\* The weight of a record is zero when none of its features is left after
\* the frequent ones are pruned.
HasWeight(fs, rec) == PruneFrequentFeatures(fs, rec.features) # <<>>

RECURSIVE KeepRecords(_, _, _)
KeepRecords(corpus, keep, k) ==
  IF k > Len(corpus) THEN <<>>
  ELSE (IF k \in keep THEN <<corpus[k]>> ELSE <<>>) \o KeepRecords(corpus, keep, k + 1)

\* Corpus::Prune: the records of zero weight go, and of the others as many
\* (any of them) as leaves no more than max_corpus_size, and at least one.
PruneResults(fs, corpus, max_corpus_size) ==
  IF Len(corpus) < 2 THEN {corpus}
  ELSE LET weighted == {k \in 1..Len(corpus) : HasWeight(fs, corpus[k])}
           target == Min(max_corpus_size, Max(1, Cardinality(weighted)))
           kept == {keep \in SUBSET weighted :
                      Cardinality(keep) = Min(target, Cardinality(weighted))}
       IN {KeepRecords(corpus, keep, 1) : keep \in kept}

(***************************************************************************)
(* The shard reader (ReadShard): the features file is read first, into a   *)
(* map from input hash to features; then the corpus file, each input with  *)
(* the features of its hash, or none.                                      *)
(***************************************************************************)
RECURSIVE FeaturesOfHash(_, _)
FeaturesOfHash(blobs, hash) ==
  IF blobs = <<>> THEN <<>>
  ELSE LET b == blobs[Len(blobs)]
       IN IF Len(b) >= HashLen /\ Suffix(b, Len(b) - HashLen + 1) = hash
          THEN BytesToFeatures(Prefix(b, Len(b) - HashLen))
          ELSE FeaturesOfHash(Prefix(blobs, Len(blobs) - 1), hash)

ReadShard(corpus_bytes, features_bytes) ==
  LET fblobs == UnpackBytesFromAppendFile(features_bytes).unpacked
      inputs == UnpackBytesFromAppendFile(corpus_bytes).unpacked
  IN [k \in 1..Len(inputs) |->
        [input |-> inputs[k], features |-> FeaturesOfHash(fblobs, Hash(inputs[k]))]]

\* What a reader may get of a file another process is appending to.
PartialReads(bytes) == {Prefix(bytes, n) : n \in 0..Len(bytes)}

\* Whether bytes end after the start of a frame and before its end.
EndsInsideFrame(bytes) ==
  LET blobs == UnpackBytesFromAppendFile(bytes).unpacked
  IN Flatten([k \in 1..Len(blobs) |-> PackBytesForAppendFile(blobs[k])]) # bytes

(***************************************************************************)
(* The workdir env.merge_from names: shard files of an earlier campaign,   *)
(* one input with its features and one without.                            *)
(***************************************************************************)
MergeCorpusFile == BlobFileAppend(BlobFileAppend(<<>>, <<1>>), <<0>>)

MergeFeaturesFile == BlobFileAppend(<<>>, PackFeaturesAndHash(<<1>>, <<1, 2>>))

\* What a corpus file may hold before the run: nothing, or an exported seed.
SeedCorpusFiles == {<<>>, BlobFileAppend(<<>>, <<1>>)}

\* The shard files are indexed by shard; the index after the last shard
\* stands for the shard files of the workdir env.merge_from names.
MergeFromIndex == TotalShards

FileIndices == Shards \cup {MergeFromIndex}

MergeFromFiles == [corpus |-> MergeCorpusFile, features |-> MergeFeaturesFile]

(***************************************************************************)
(* State.  pk_*: the container runs (the blobs packed so far, the file     *)
(* they were appended to, the result of the last read of a byte prefix).   *)
(* env: the Environment shared by the shards.  files: the shard files of   *)
(* the workdir.  io_faults: how many appends the file system may still     *)
(* fail.  crashes: the reproducers saved under crashes/.  sh: each shard   *)
(* process: its position in FuzzingLoop and the fields of Centipede.       *)
(***************************************************************************)
VARIABLES pk_blobs, pk_file, pk_read, pk_unpacked, pk_hashes,
          env, files, io_faults, crashes, sh,
          fn_op, fn_arg, fn_res,
          mu_data, mu_size_alignment, mu_max_len, mu_stack, mu_op, mu_ret

pk_vars == <<pk_blobs, pk_file, pk_read, pk_unpacked, pk_hashes>>

fz_vars == <<env, files, io_faults, crashes, sh>>

\* A run of one function on its own: the function, its arguments, its result.
fn_vars == <<fn_op, fn_arg, fn_res>>

\* A ByteArrayMutator and the data it mutates: the fields size_alignment_
\* and max_len_, the dispatchers that are running (mu_stack, the innermost
\* last), the last call and what it returned.
mu_vars == <<mu_data, mu_size_alignment, mu_max_len, mu_stack, mu_op, mu_ret>>

vars == <<pk_blobs, pk_file, pk_read, pk_unpacked, pk_hashes, env, files, io_faults, crashes, sh,
          fn_op, fn_arg, fn_res,
          mu_data, mu_size_alignment, mu_max_len, mu_stack, mu_op, mu_ret>>

NoLoad == [dir |-> "none", idx |-> 0, rerun |-> FALSE, ret |-> "none", torn |-> FALSE]

\* A Centipede object after construction, and FuzzingLoop not yet entered.
InitShard ==
  [pc |-> "start", early_exit |-> FALSE, exit_code |-> 0, requests_left |-> 0,
   fs |-> [f \in Features |-> 0], corpus |-> <<>>,
   to_rerun |-> <<>>, load_q |-> <<>>, load_ctx |-> NoLoad,
   input_vec |-> <<>>, suspect |-> 0, i |-> 0, run_ret |-> "none", crash_q |-> <<>>,
   batch_index |-> 0, new_runs |-> 0, last_prune |-> 0,
   num_crash_reports |-> 0, initial_corpus_size |-> 0, log |-> <<>>,
   n_exec |-> 0, n_graded |-> 0, requested |-> <<>>, n_suppressed |-> 0,
   restarts |-> 0]

\* A shard index no process runs for.
IdleShard == [InitShard EXCEPT !.pc = "idle"]


\* The exit code of an external RequestEarlyExit.
ExternalExitCode == 2

(***************************************************************************)
(* RequestEarlyExit (util.h), called from outside the loop (a signal).     *)
(***************************************************************************)
\* A RequestEarlyExit that keeps the exit code of the first call.
RequestEarlyExitKeepsFirst(r, exit_code) ==
  [r EXCEPT !.early_exit = TRUE,
            !.exit_code = IF r.early_exit THEN @ ELSE exit_code,
            !.requested = Append(@, exit_code)]

\* requested keeps the arguments of the calls so far, the latest last.
RequestEarlyExit(r, exit_code) ==
  [r EXCEPT !.early_exit = TRUE, !.exit_code = exit_code,
            !.requested = Append(@, exit_code)]

ExternalRequest(s) ==
  /\ sh[s].pc \notin {"idle", "done", "aborted"}
  /\ sh[s].requests_left > 0
  /\ sh' = [sh EXCEPT ![s] = [RequestEarlyExit(@, ExternalExitCode)
                                EXCEPT !.requests_left = @ - 1]]
  /\ UNCHANGED <<env, files, io_faults, crashes, pk_vars, fn_vars, mu_vars>>

(***************************************************************************)
(* Appends to the shard's own files.  Each append either writes the whole  *)
(* frame, or fewer bytes, and then the CHECK on it fails.                  *)
(***************************************************************************)
\* ops: a sequence of [file |-> "corpus" | "features", blob |-> bytes];
\* faulty: whether the file system may fail an append now.
RECURSIVE AppendOutcomes(_, _, _)
AppendOutcomes(f, ops, faulty) ==
  IF ops = <<>> THEN {[f |-> f, ok |-> TRUE]}
  ELSE LET op == Head(ops)
           now == f[op.file]
           frame == PackBytesForAppendFile(op.blob)
       IN (IF faulty
           THEN {[f |-> [f EXCEPT ![op.file] = RemoteFileAppend(now, Prefix(frame, k))],
                  ok |-> FALSE] : k \in 0..(Len(frame) - 1)}
           ELSE {})
          \cup AppendOutcomes([f EXCEPT ![op.file] = BlobFileAppend(now, op.blob)],
                              Tail(ops), faulty)

\* A CHECK that lets the process go on.
AbortIgnored(r) == r

\* A failed CHECK ends the process.
Aborted(r) == [InitShard EXCEPT !.pc = "aborted", !.early_exit = r.early_exit,
                                !.exit_code = r.exit_code, !.requested = r.requested]

(***************************************************************************)
(* Centipede::RunBatch and Centipede::ReportCrash.                         *)
(***************************************************************************)
\* env.input_filter stands for the inputs the filter command rejects; it is
\* empty when no command is set, and InputPassesFilter then returns true.
InputPassesFilter(input) == input \notin env.input_filter

\* env.function_filter stands for the features of the functions it names;
\* it is empty when none is named, and FunctionFilter::filter then returns
\* true.
FunctionFilterPasses(fv) ==
  env.function_filter = {} \/ \E k \in DOMAIN fv : fv[k] \in env.function_filter

\* Whether RunBatch's loop admits the input it grades.
AdmitsAny(input, input_gained_new_coverage) == TRUE

\* An admission that does not ask the input filter.
AdmitsUnfiltered(input, input_gained_new_coverage) == input_gained_new_coverage

AdmitsInput(input, input_gained_new_coverage) ==
  input_gained_new_coverage /\ InputPassesFilter(input)

\* RunBatch returns to its caller: the Rerun loop, or the main loop, which
\* adds the size of the batch to new_runs.
RunBatchReturn(r) ==
  IF r.run_ret = "rerun"
  THEN [r EXCEPT !.pc = "rerun", !.input_vec = <<>>, !.i = 0, !.suspect = 0,
                 !.run_ret = "none"]
  ELSE [r EXCEPT !.pc = "post_batch", !.new_runs = @ + Len(r.input_vec),
                 !.input_vec = <<>>, !.i = 0, !.suspect = 0, !.run_ret = "none"]

\* A RunBatch that grades the batch of a failed execution whatever
\* exit_on_crash is.
AfterFailedExecuteGrades(r) ==
  [r EXCEPT !.pc = "grade", !.i = 1, !.crash_q = <<>>]

\* RunBatch after a failed execution: with exit_on_crash it requests the
\* early exit and returns, else it goes on to grade the batch.
AfterFailedExecute(r) ==
  IF env.exit_on_crash
  THEN RunBatchReturn(RequestEarlyExit(r, 1))
  ELSE [r EXCEPT !.pc = "grade", !.i = 1, !.crash_q = <<>>]

\* A try-order that moves the suspect to the front.
InputIdxsSuspectMoved(n, suspect_input_idx) ==
  (IF suspect_input_idx < n THEN <<suspect_input_idx>> ELSE <<>>)
    \o SelectSeq([k \in 1..n |-> k - 1], LAMBDA x : x # suspect_input_idx)

\* The order ReportCrash tries the inputs in (indices from 0).
InputIdxsToTry(n, suspect_input_idx) ==
  (IF suspect_input_idx < n THEN <<suspect_input_idx>> ELSE <<>>)
    \o [k \in 1..n |-> k - 1]

\* A ReportCrash without the cap on the number of reports.
ReportCrashEntryNoCap(r) ==
  [r EXCEPT !.num_crash_reports = @ + 1,
            !.crash_q = InputIdxsToTry(Len(r.input_vec), r.suspect),
            !.pc = "report_crash"]

\* ReportCrash up to its loop; n_suppressed counts the calls that return at
\* once because the cap is reached.
ReportCrashEntry(r) ==
  IF r.num_crash_reports >= MaxNumCrashReports
  THEN AfterFailedExecute([r EXCEPT !.n_suppressed = @ + 1])
  ELSE [r EXCEPT !.num_crash_reports = @ + 1,
                 !.crash_q = InputIdxsToTry(Len(r.input_vec), r.suspect),
                 !.pc = "report_crash"]

\* RunBatch up to its grading loop: the execution callback runs the batch.
\* A batch fails when one of its inputs makes the target fail; the outputs
\* read before the failure are those of the inputs before it, or all.
ExecuteBatch(r, batch, ret) ==
  LET n == Len(batch)
      failing == {k \in 1..n : TargetFails(batch[k])}
      first == CHOOSE k \in failing : \A j \in failing : k <= j
      r1 == [r EXCEPT !.input_vec = batch, !.run_ret = ret, !.n_exec = @ + 1, !.i = 1]
  IN IF failing = {}
     THEN {[r1 EXCEPT !.pc = "grade", !.suspect = n]}
     ELSE {ReportCrashEntry([r1 EXCEPT !.suspect = num_outputs_read]) :
             num_outputs_read \in {first - 1, n}}

\* A ReportCrash loop that saves every input that fails alone.
ReportCrashTryAll(s) ==
  LET r == sh[s]
      one_input == r.input_vec[Head(r.crash_q) + 1]
      r1 == [r EXCEPT !.n_exec = @ + 1, !.crash_q = Tail(@)]
  IN /\ r.pc = "report_crash"
     /\ crashes' = IF TargetFails(one_input) THEN crashes \cup {Hash(one_input)} ELSE crashes
     /\ sh' = [sh EXCEPT ![s] = IF r1.crash_q = <<>> THEN AfterFailedExecute(r1) ELSE r1]
     /\ UNCHANGED <<env, files, io_faults, pk_vars, fn_vars, mu_vars>>

\* One round of ReportCrash's loop: the next input of the try-order is run
\* alone; if that fails it is saved under crashes/ and ReportCrash returns.
ReportCrashTry(s) ==
  LET r == sh[s]
      one_input == r.input_vec[Head(r.crash_q) + 1]
      r1 == [r EXCEPT !.n_exec = @ + 1, !.crash_q = Tail(@)]
  IN /\ r.pc = "report_crash"
     /\ \E fails \in (IF TargetFails(one_input) THEN BOOLEAN ELSE {FALSE}) :
          IF fails
          THEN /\ crashes' = crashes \cup {Hash(one_input)}
               /\ sh' = [sh EXCEPT ![s] = AfterFailedExecute(r1)]
          ELSE /\ crashes' = crashes
               /\ sh' = [sh EXCEPT ![s] =
                           IF r1.crash_q = <<>> THEN AfterFailedExecute(r1) ELSE r1]
     /\ UNCHANGED <<env, files, io_faults, pk_vars, fn_vars, mu_vars>>

\* The features RunBatch's loop reads for the input at index i (from 1).
ResultFeatures(r, i) ==
  IF i - 1 < r.suspect THEN TargetFeatures(r.input_vec[i]) ELSE <<>>

\* A rerun that appends no features record.
NoUnconditionalAppends(input, features_blob) == <<>>

\* The append to unconditional_features_file, which Rerun sets: the features
\* record of the input, whatever its features.
UnconditionalAppends(input, features_blob) ==
  <<[file |-> "features", blob |-> features_blob]>>

\* An admission that appends the features record only.
AdmissionAppendsFeaturesOnly(input, features_blob) ==
  <<[file |-> "features", blob |-> features_blob]>>

\* The appends of an admission in the main loop: the input to the corpus
\* file, then its features record to the features file.
AdmissionAppends(input, features_blob) ==
  <<[file |-> "corpus", blob |-> input],
    [file |-> "features", blob |-> features_blob]>>

\* One round of RunBatch's grading loop.
GradeInput(s) ==
  LET r == sh[s]
      input == r.input_vec[r.i]
      fv0 == ResultFeatures(r, r.i)
      function_filter_passed == FunctionFilterPasses(fv0)
      fv == PruneFrequentFeatures(r.fs, fv0)
      input_gained_new_coverage == CountUnseen(r.fs, fv) > 0
      in_rerun == r.run_ret = "rerun"
      admit == AdmitsInput(input, input_gained_new_coverage)
      features_blob == PackFeaturesAndHash(input, fv)
      ops == (IF in_rerun THEN UnconditionalAppends(input, features_blob) ELSE <<>>)
             \o (IF admit /\ ~in_rerun
                 THEN AdmissionAppends(input, features_blob)
                 ELSE <<>>)
      r1 == IF admit
            THEN [r EXCEPT !.fs = IncrementFrequencies(@, fv),
                           !.corpus = IF function_filter_passed
                                      THEN CorpusAdd(@, input, fv, r.fs) ELSE @]
            ELSE r
      r2 == [r1 EXCEPT !.n_graded = @ + 1, !.i = @ + 1]
      r3 == IF r.i = Len(r.input_vec) THEN RunBatchReturn(r2) ELSE r2
  IN /\ r.pc = "grade"
     /\ IF r.early_exit
        THEN /\ sh' = [sh EXCEPT ![s] = RunBatchReturn(r)]
             /\ files' = files
             /\ io_faults' = io_faults
        ELSE \E o \in AppendOutcomes(files[s], ops, io_faults > 0) :
               /\ files' = [files EXCEPT ![s] = o.f]
               /\ io_faults' = IF o.ok THEN io_faults ELSE io_faults - 1
               /\ sh' = [sh EXCEPT ![s] = IF o.ok THEN r3 ELSE Aborted(r2)]
     /\ UNCHANGED <<env, crashes, pk_vars, fn_vars, mu_vars>>

(***************************************************************************)
(* Centipede::LoadShard and Centipede::Rerun.                              *)
(***************************************************************************)
\* A LoadShard that starts from an empty feature set.
LoadShardResetsFrequencies(r, dir, shard_index, rerun, ret) ==
  [r EXCEPT !.pc = "load", !.to_rerun = <<>>, !.load_q = <<>>,
            !.fs = [f \in Features |-> 0],
            !.load_ctx = [dir |-> dir, idx |-> shard_index, rerun |-> rerun, ret |-> ret,
                          torn |-> FALSE]]

LoadShard(r, dir, shard_index, rerun, ret) ==
  [r EXCEPT !.pc = "load", !.to_rerun = <<>>, !.load_q = <<>>,
            !.load_ctx = [dir |-> dir, idx |-> shard_index, rerun |-> rerun, ret |-> ret,
                          torn |-> FALSE]]

\* A LoadShard that prunes the corpus to its last record before it returns.
LoadShardReturnPrunes(r) ==
  [r EXCEPT !.pc = CASE r.load_ctx.ret = "startup" -> "merge"
                     [] r.load_ctx.ret = "merge" -> "merge_append"
                     [] OTHER -> "prune",
            !.corpus = IF Len(@) > 1 THEN <<@[Len(@)]>> ELSE @,
            !.to_rerun = <<>>, !.load_q = <<>>, !.load_ctx = NoLoad]

\* Where LoadShard returns to: the startup goes on to the merge, the merge
\* to its appends, the main loop to the prune of the batch.
LoadShardReturn(r) ==
  [r EXCEPT !.pc = CASE r.load_ctx.ret = "startup" -> "merge"
                     [] r.load_ctx.ret = "merge" -> "merge_append"
                     [] OTHER -> "prune",
            !.to_rerun = <<>>, !.load_q = <<>>, !.load_ctx = NoLoad]

\* ReadShard opens and reads the two files.  The files of another shard of
\* the workdir may be read in part, while that shard appends to them.
\* load_ctx.torn remembers whether a read ended inside a frame.
LoadRead(s) ==
  LET r == sh[s]
      ctx == r.load_ctx
      from == IF ctx.dir = "merge" THEN MergeFromIndex ELSE ctx.idx
      cbytes == files[from].corpus
      fbytes == files[from].features
      shared == ctx.dir = "workdir" /\ ctx.idx # s
  IN /\ r.pc = "load"
     /\ \E c \in (IF shared THEN PartialReads(cbytes) ELSE {cbytes}),
           f \in (IF shared THEN PartialReads(fbytes) ELSE {fbytes}) :
          sh' = [sh EXCEPT ![s] =
                   [r EXCEPT !.pc = "load_cb", !.load_q = ReadShard(c, f),
                             !.load_ctx.torn = EndsInsideFrame(c) \/ EndsInsideFrame(f)]]
     /\ UNCHANGED <<env, files, io_faults, crashes, pk_vars, fn_vars, mu_vars>>

\* A callback that adds every input it is given, whatever its features.
LoadCallbackAdmitsAll(s) ==
  LET r == sh[s]
      input == Head(r.load_q).input
      features == Head(r.load_q).features
      pruned == PruneFrequentFeatures(r.fs, features)
  IN /\ r.pc = "load_cb"
     /\ sh' = [sh EXCEPT ![s] =
          IF r.load_q = <<>> THEN [r EXCEPT !.pc = "rerun"]
          ELSE [r EXCEPT !.load_q = Tail(@),
                         !.fs = IncrementFrequencies(@, pruned),
                         !.corpus = CorpusAdd(@, input, pruned, r.fs),
                         !.n_graded = @ + 1]]
     /\ UNCHANGED <<env, files, io_faults, crashes, pk_vars, fn_vars, mu_vars>>

\* A callback that queues every input without features, whatever rerun is.
LoadCallbackQueuesAlways(s) ==
  LET r == sh[s]
      input == Head(r.load_q).input
      features == Head(r.load_q).features
      pruned == PruneFrequentFeatures(r.fs, features)
      r1 == [r EXCEPT !.load_q = Tail(@)]
  IN /\ r.pc = "load_cb"
     /\ sh' = [sh EXCEPT ![s] =
          IF r.load_q = <<>> THEN [r EXCEPT !.pc = "rerun"]
          ELSE IF r.early_exit THEN r1
          ELSE IF features = <<>>
               THEN [r1 EXCEPT !.to_rerun = Append(@, input)]
          ELSE IF CountUnseen(r.fs, pruned) > 0
               THEN [r1 EXCEPT !.fs = IncrementFrequencies(@, pruned),
                               !.corpus = CorpusAdd(@, input, pruned, r.fs),
                               !.n_graded = @ + 1]
               ELSE [r1 EXCEPT !.n_graded = @ + 1]]
     /\ UNCHANGED <<env, files, io_faults, crashes, pk_vars, fn_vars, mu_vars>>

\* LoadShard's input_features_callback on the next input read, and, after
\* the last one, the call of Rerun.
LoadCallback(s) ==
  LET r == sh[s]
      input == Head(r.load_q).input
      features == Head(r.load_q).features
      pruned == PruneFrequentFeatures(r.fs, features)
      r1 == [r EXCEPT !.load_q = Tail(@)]
  IN /\ r.pc = "load_cb"
     /\ sh' = [sh EXCEPT ![s] =
          IF r.load_q = <<>> THEN [r EXCEPT !.pc = "rerun"]
          ELSE IF r.early_exit THEN r1
          ELSE IF features = <<>>
               THEN (IF r.load_ctx.rerun
                     THEN [r1 EXCEPT !.to_rerun = Append(@, input)] ELSE r1)
          ELSE IF CountUnseen(r.fs, pruned) > 0
               THEN [r1 EXCEPT !.fs = IncrementFrequencies(@, pruned),
                               !.corpus = CorpusAdd(@, input, pruned, r.fs),
                               !.n_graded = @ + 1]
               ELSE [r1 EXCEPT !.n_graded = @ + 1]]
     /\ UNCHANGED <<env, files, io_faults, crashes, pk_vars, fn_vars, mu_vars>>

\* A round of Rerun's loop that runs all of to_rerun as one batch.
RerunBatchWhole(s) ==
  LET r == sh[s]
  IN /\ r.pc = "rerun"
     /\ IF r.to_rerun = <<>> \/ r.early_exit
        THEN sh' = [sh EXCEPT ![s] = LoadShardReturn(r)]
        ELSE \E r2 \in ExecuteBatch([r EXCEPT !.to_rerun = <<>>], r.to_rerun, "rerun") :
               sh' = [sh EXCEPT ![s] = r2]
     /\ UNCHANGED <<env, files, io_faults, crashes, pk_vars, fn_vars, mu_vars>>

\* One round of Rerun's loop: the last batch_size inputs of to_rerun are
\* taken off it and run, with the features file as the unconditional one.
RerunBatch(s) ==
  LET r == sh[s]
      batch_size == Min(Len(r.to_rerun), env.batch_size)
      keep == Len(r.to_rerun) - batch_size
      batch == Suffix(r.to_rerun, keep + 1)
  IN /\ r.pc = "rerun"
     /\ IF r.to_rerun = <<>> \/ r.early_exit
        THEN sh' = [sh EXCEPT ![s] = LoadShardReturn(r)]
        ELSE \E r2 \in ExecuteBatch([r EXCEPT !.to_rerun = Prefix(@, keep)], batch, "rerun") :
               sh' = [sh EXCEPT ![s] = r2]
     /\ UNCHANGED <<env, files, io_faults, crashes, pk_vars, fn_vars, mu_vars>>

(***************************************************************************)
(* Centipede::FuzzingLoop and Centipede::MergeFromOtherCorpus.             *)
(***************************************************************************)
\* The loop is entered: the dummy input is run as a warm-up (its result is
\* dropped) and the shard's own files are loaded, with rerun.
Start(s) ==
  /\ sh[s].pc = "start"
  /\ sh' = [sh EXCEPT ![s] = LoadShard([@ EXCEPT !.n_exec = @ + 1],
                                        "workdir", s, TRUE, "startup")]
  /\ UNCHANGED <<env, files, io_faults, crashes, pk_vars, fn_vars, mu_vars>>

\* After the startup load: MergeFromOtherCorpus up to the end of its load,
\* when env.merge_from is set.
MergeLoad(s) ==
  LET r == sh[s]
  IN /\ r.pc = "merge"
     /\ sh' = [sh EXCEPT ![s] =
          IF env.merge_from
          THEN LoadShard([r EXCEPT !.initial_corpus_size = NumActive(r.corpus)],
                         "merge", s, TRUE, "merge")
          ELSE [r EXCEPT !.pc = "init"]]
     /\ UNCHANGED <<env, files, io_faults, crashes, pk_vars, fn_vars, mu_vars>>

\* Appends of the whole corpus, from index 0.
MergeAppendsWholeCorpus(corpus, idx, new_corpus_size) ==
  [k \in 1..new_corpus_size |-> [file |-> "corpus", blob |-> corpus[k].data]]

\* The inputs MergeFromOtherCorpus appends: those at the corpus indices
\* from the size before the load to the size after it.
RECURSIVE MergeAppends(_, _, _)
MergeAppends(corpus, idx, new_corpus_size) ==
  IF idx >= new_corpus_size THEN <<>>
  ELSE <<[file |-> "corpus", blob |-> corpus[idx + 1].data]>>
         \o MergeAppends(corpus, idx + 1, new_corpus_size)

\* The shard files MergeFromOtherCorpus opens for append: those of env_,
\* not of merge_from_env.
MergeFromDestination(s) == MergeFromIndex

MergeDestination(s) == s

\* The rest of MergeFromOtherCorpus.
MergeAppend(s) ==
  LET r == sh[s]
      new_corpus_size == NumActive(r.corpus)
      r1 == [r EXCEPT !.pc = "init", !.initial_corpus_size = 0]
  IN /\ r.pc = "merge_append"
     /\ IF new_corpus_size < r.initial_corpus_size
        THEN /\ sh' = [sh EXCEPT ![s] = Aborted(r)]
             /\ files' = files
             /\ io_faults' = io_faults
        ELSE \E o \in AppendOutcomes(files[MergeDestination(s)],
                        MergeAppends(r.corpus, r.initial_corpus_size, new_corpus_size),
                        io_faults > 0) :
               /\ files' = [files EXCEPT ![MergeDestination(s)] = o.f]
               /\ io_faults' = IF o.ok THEN io_faults ELSE io_faults - 1
               /\ sh' = [sh EXCEPT ![s] = IF o.ok THEN r1 ELSE Aborted(r)]
     /\ UNCHANGED <<env, crashes, pk_vars, fn_vars, mu_vars>>

\* A startup that leaves an empty corpus empty.
InitDoneWithoutDummy(s) ==
  LET r == sh[s]
  IN /\ r.pc = "init"
     /\ sh' = [sh EXCEPT ![s] = [r EXCEPT !.pc = "main",
                                          !.batch_index = 0, !.new_runs = 0,
                                          !.last_prune = NumActive(r.corpus)]]
     /\ UNCHANGED <<env, files, io_faults, crashes, pk_vars, fn_vars, mu_vars>>

\* The files are opened for append, the dummy input is added to an empty
\* corpus, and the counters of the main loop are set.
InitDone(s) ==
  LET r == sh[s]
      corpus == IF r.corpus = <<>>
                THEN CorpusAdd(r.corpus, DummyValidInput, <<>>, r.fs) ELSE r.corpus
  IN /\ r.pc = "init"
     /\ sh' = [sh EXCEPT ![s] = [r EXCEPT !.pc = "main", !.corpus = corpus,
                                          !.batch_index = 0, !.new_runs = 0,
                                          !.last_prune = NumActive(corpus)]]
     /\ UNCHANGED <<env, files, io_faults, crashes, pk_vars, fn_vars, mu_vars>>

\* num_runs / batch_size, rounded down.
NumberOfBatchesRoundedDown == env.num_runs \div env.batch_size

\* num_runs / batch_size, rounded up.
NumberOfBatches ==
  (env.num_runs \div env.batch_size) + (IF env.num_runs % env.batch_size # 0 THEN 1 ELSE 0)

\* A round of the main loop that asks for env.batch_size mutants whatever
\* number of runs remains.
MainBatchFullSize(s) ==
  LET r == sh[s]
  IN /\ r.pc = "main"
     /\ IF r.batch_index >= NumberOfBatches \/ r.early_exit
        THEN sh' = [sh EXCEPT ![s] = [r EXCEPT !.pc = "final"]]
        ELSE \E mutants \in [1..env.batch_size -> Inputs] :
               \E r2 \in ExecuteBatch(r, mutants, "main") :
                 sh' = [sh EXCEPT ![s] = r2]
     /\ UNCHANGED <<env, files, io_faults, crashes, pk_vars, fn_vars, mu_vars>>

\* The head of a round of the main loop, up to the grading loop of its
\* batch: the mutator returns batch_size mutants, any inputs.
MainBatch(s) ==
  LET r == sh[s]
      batch_size == Min(env.batch_size, env.num_runs - r.new_runs)
  IN /\ r.pc = "main"
     /\ IF r.batch_index >= NumberOfBatches \/ r.early_exit
        THEN sh' = [sh EXCEPT ![s] = [r EXCEPT !.pc = "final"]]
        ELSE IF ~(r.new_runs < env.num_runs) \/ r.corpus = <<>>
        THEN sh' = [sh EXCEPT ![s] = Aborted(r)]
        ELSE \E mutants \in [1..batch_size -> Inputs] :
               \E r2 \in ExecuteBatch(r, mutants, "main") :
                 sh' = [sh EXCEPT ![s] = r2]
     /\ UNCHANGED <<env, files, io_faults, crashes, pk_vars, fn_vars, mu_vars>>

\* A peer choice that takes the random value modulo total_shards.
OtherShardIndexAnyOffset(my_shard_index, total_shards, rng) ==
  (my_shard_index + 1 + (rng % total_shards)) % total_shards

\* The shard a periodic load reads, from the value rng the generator returns.
OtherShardIndex(my_shard_index, total_shards, rng) ==
  LET rand == rng % (total_shards - 1)
  IN (my_shard_index + 1 + rand) % total_shards

\* After the batch: every load_other_shard_frequency batches another shard
\* is loaded, without rerun.
PostBatch(s) ==
  LET r == sh[s]
  IN /\ r.pc = "post_batch"
     /\ IF /\ LoadOtherShardFrequency # 0
           /\ r.batch_index # 0
           /\ r.batch_index % LoadOtherShardFrequency = 0
           /\ TotalShards > 1
        THEN \E rng \in 0..(TotalShards - 1) :
               LET other_shard_index == OtherShardIndex(s, TotalShards, rng)
               IN sh' = [sh EXCEPT ![s] =
                      IF other_shard_index = s THEN Aborted(r)
                      ELSE LoadShard(r, "workdir", other_shard_index, FALSE, "peer")]
        ELSE sh' = [sh EXCEPT ![s] = [r EXCEPT !.pc = "prune"]]
     /\ UNCHANGED <<env, files, io_faults, crashes, pk_vars, fn_vars, mu_vars>>

\* A prune as soon as the corpus has grown by prune_frequency records.
PruneStepAtEqual(s) ==
  LET r == sh[s]
      r1 == [r EXCEPT !.pc = "main", !.batch_index = @ + 1]
  IN /\ r.pc = "prune"
     /\ IF /\ env.prune_frequency # 0
           /\ NumActive(r.corpus) >= r.last_prune + env.prune_frequency
        THEN \E pruned \in PruneResults(r.fs, r.corpus, MaxCorpusSize) :
               sh' = [sh EXCEPT ![s] = [r1 EXCEPT !.corpus = pruned,
                                                  !.last_prune = NumActive(pruned)]]
        ELSE sh' = [sh EXCEPT ![s] = r1]
     /\ UNCHANGED <<env, files, io_faults, crashes, pk_vars, fn_vars, mu_vars>>

\* The end of the round: the corpus is pruned if it has grown enough since
\* the last prune.
PruneStep(s) ==
  LET r == sh[s]
      r1 == [r EXCEPT !.pc = "main", !.batch_index = @ + 1]
  IN /\ r.pc = "prune"
     /\ IF /\ env.prune_frequency # 0
           /\ NumActive(r.corpus) > r.last_prune + env.prune_frequency
        THEN \E pruned \in PruneResults(r.fs, r.corpus, MaxCorpusSize) :
               sh' = [sh EXCEPT ![s] = [r1 EXCEPT !.corpus = pruned,
                                                  !.last_prune = NumActive(pruned)]]
        ELSE sh' = [sh EXCEPT ![s] = r1]
     /\ UNCHANGED <<env, files, io_faults, crashes, pk_vars, fn_vars, mu_vars>>

\* A loop that ends without the final telemetry.
SkipTelemetry(s) ==
  /\ sh[s].pc = "final"
  /\ sh' = [sh EXCEPT ![s] = [@ EXCEPT !.pc = "end_fuzz"]]
  /\ UNCHANGED <<env, files, io_faults, crashes, pk_vars, fn_vars, mu_vars>>

\* After the loop: the final telemetry, then the "end-fuzz" line.
FinalTelemetry(s) ==
  /\ sh[s].pc = "final"
  /\ sh' = [sh EXCEPT ![s] = [@ EXCEPT !.pc = "end_fuzz", !.log = Append(@, "latest")]]
  /\ UNCHANGED <<env, files, io_faults, crashes, pk_vars, fn_vars, mu_vars>>

EndFuzz(s) ==
  /\ sh[s].pc = "end_fuzz"
  /\ sh' = [sh EXCEPT ![s] = [@ EXCEPT !.pc = "done", !.log = Append(@, "end-fuzz")]]
  /\ UNCHANGED <<env, files, io_faults, crashes, pk_vars, fn_vars, mu_vars>>

ShardStep(s) ==
  \/ Start(s)
  \/ LoadRead(s)
  \/ LoadCallback(s)
  \/ RerunBatch(s)
  \/ ReportCrashTry(s)
  \/ GradeInput(s)
  \/ MergeLoad(s)
  \/ MergeAppend(s)
  \/ InitDone(s)
  \/ MainBatch(s)
  \/ PostBatch(s)
  \/ PruneStep(s)
  \/ FinalTelemetry(s)
  \/ EndFuzz(s)


(***************************************************************************)
(* State of the container runs: the blobs packed so far, the file they     *)
(* were appended to, and the result of the last read of a byte prefix.     *)
(***************************************************************************)
Blobs == SeqsUpTo(BlobBytes, MaxBlobLen)

PkIdle ==
  /\ pk_blobs = <<>>
  /\ pk_file = <<>>
  /\ pk_read = -1
  /\ pk_unpacked = <<>>
  /\ pk_hashes = <<>>

\* No function is run on its own.
FnIdle ==
  /\ fn_op = "none"
  /\ fn_arg = <<>>
  /\ fn_res = <<>>

\* The largest size_t of the model: max_len_ when it is unbounded.
SizeMax == 255

\* No mutator is in use: a mutator as constructed, and no data.
MuIdle ==
  /\ mu_data = <<>>
  /\ mu_size_alignment = 1
  /\ mu_max_len = SizeMax
  /\ mu_stack = <<>>
  /\ mu_op = "none"
  /\ mu_ret = "none"

\* In the container runs no shard runs.
FzIdle ==
  /\ env = [exit_on_crash |-> FALSE, merge_from |-> FALSE, num_runs |-> 1, batch_size |-> 1,
            function_filter |-> {}, input_filter |-> {},
            prune_frequency |-> PruneFrequency]
  /\ files = [d \in FileIndices |-> [corpus |-> <<>>, features |-> <<>>]]
  /\ io_faults = 0
  /\ crashes = {}
  /\ sh = [s \in Shards |-> IdleShard]

PkInit == PkIdle /\ FzIdle /\ FnIdle /\ MuIdle

\* A writer packs blob b and appends the frame to the file.
PkAppend ==
  \E b \in Blobs :
    /\ Len(pk_blobs) < MaxBlobs
    /\ pk_blobs' = Append(pk_blobs, b)
    /\ pk_file' = RemoteFileAppend(pk_file, PackBytesForAppendFile(b))
    /\ pk_read' = -1
    /\ pk_unpacked' = <<>>
    /\ pk_hashes' = <<>>
    /\ UNCHANGED <<fz_vars, fn_vars, mu_vars>>

\* A reader gets the first n bytes of the file and unpacks them.
PkUnpack ==
  \E n \in 0..Len(pk_file) :
    LET r == UnpackBytesFromAppendFile(Prefix(pk_file, n))
    IN /\ pk_read' = n
       /\ pk_unpacked' = r.unpacked
       /\ pk_hashes' = r.hashes
       /\ UNCHANGED <<pk_blobs, pk_file>>
       /\ UNCHANGED <<fz_vars, fn_vars, mu_vars>>

PkNext == PkAppend \/ PkUnpack

SpecPack == PkInit /\ [][PkNext]_vars

(***************************************************************************)
(* The fuzzing runs: the shards of one workdir, each in its FuzzingLoop.   *)
(***************************************************************************)
\* What the files of a shard hold when a run starts: nothing, a seed that
\* was exported to the corpus file, or what an earlier run left that
\* admitted one input.
EarlierRunFiles ==
  [corpus |-> BlobFileAppend(<<>>, <<1>>),
   features |-> BlobFileAppend(<<>>, PackFeaturesAndHash(<<1>>, <<1, 2>>))]

StartFiles ==
  {[corpus |-> c, features |-> <<>>] : c \in SeedCorpusFiles} \cup {EarlierRunFiles}

Envs ==
  [exit_on_crash : BOOLEAN, merge_from : BOOLEAN,
   num_runs : {NumRuns}, batch_size : {BatchSize},
   function_filter : {{}}, input_filter : {{}},
              prune_frequency : {PruneFrequency}]

\* One shard process, of index 0, runs in a workdir that holds the files of
\* the other shards.
Init ==
  /\ PkIdle
  /\ FnIdle
  /\ MuIdle
  /\ env \in Envs
  /\ \E own \in [Shards -> StartFiles] :
       files = [d \in FileIndices |-> IF d \in Shards THEN own[d] ELSE MergeFromFiles]
  /\ io_faults = MaxIoFaults
  /\ crashes = {}
  /\ sh = [s \in Shards |->
             IF s = 0 THEN [InitShard EXCEPT !.requests_left = MaxExternalRequests]
             ELSE IdleShard]

Next ==
  \E s \in Shards :
    \/ Start(s)
    \/ LoadRead(s)
    \/ LoadCallback(s)
    \/ RerunBatch(s)
    \/ ReportCrashTry(s)
    \/ GradeInput(s)
    \/ MergeLoad(s)
    \/ MergeAppend(s)
    \/ InitDone(s)
    \/ MainBatch(s)
    \/ PostBatch(s)
    \/ PruneStep(s)
    \/ FinalTelemetry(s)
    \/ EndFuzz(s)
    \/ ExternalRequest(s)

Spec == Init /\ [][Next]_vars

\* A shard process that does not run: none was started, or it has returned
\* from FuzzingLoop, or a CHECK has ended it.
Ended(r) == r.pc \in {"idle", "done", "aborted"}

\* A shard process that has not ended can take a step.
ShardStepEnabled ==
  \A s \in Shards : (ENABLED <<ShardStep(s)>>_vars) <=> ~Ended(sh[s])

\* Every shard process keeps running until its loop ends or a CHECK fails:
\* weak fairness of ShardStep(s), with its enabling condition written out.
FairSpec ==
  Spec /\ \A s \in Shards : ([]<>Ended(sh[s]) \/ []<><<ShardStep(s)>>_vars)

\* Two shard processes, of indices 0 and 1, run at once in a workdir that
\* starts empty, with a file system that fails no append and no signal.
InitPair ==
  /\ PkIdle
  /\ FnIdle
  /\ MuIdle
  /\ env = [exit_on_crash |-> FALSE, merge_from |-> FALSE, num_runs |-> 2, batch_size |-> 1,
            function_filter |-> {}, input_filter |-> {},
            prune_frequency |-> PruneFrequency]
  /\ files = [d \in FileIndices |->
                IF d \in Shards THEN [corpus |-> <<>>, features |-> <<>>]
                ELSE MergeFromFiles]
  /\ io_faults = 0
  /\ crashes = {}
  /\ sh = [s \in Shards |-> IF s \in {0, 1} THEN InitShard ELSE IdleShard]

NextPair ==
  \E s \in Shards :
    \/ Start(s)
    \/ LoadRead(s)
    \/ LoadCallback(s)
    \/ RerunBatch(s)
    \/ ReportCrashTry(s)
    \/ GradeInput(s)
    \/ MergeLoad(s)
    \/ InitDone(s)
    \/ MainBatch(s)
    \/ PostBatch(s)
    \/ PruneStep(s)
    \/ FinalTelemetry(s)
    \/ EndFuzz(s)

SpecPair == InitPair /\ [][NextPair]_vars

(***************************************************************************)
(* The runs of one function on its own: each step calls one function of    *)
(* the source on arguments drawn from bounded sets and keeps the result.   *)
(***************************************************************************)
\* The largest total_shards and the largest value of the generator.
MaxTotalShards == 5

MaxRng == 7

\* The largest batch ReportCrash is run on.
MaxInputVecSize == 3

FnInit == PkIdle /\ FzIdle /\ FnIdle /\ MuIdle

\* The peer choice of a shard my_shard_index of total_shards shards.
FnOtherShardIndex ==
  \E total_shards \in 2..MaxTotalShards :
    \E my_shard_index \in 0..(total_shards - 1) :
      \E rng \in 0..MaxRng :
        /\ fn_op' = "OtherShardIndex"
        /\ fn_arg' = <<my_shard_index, total_shards, rng>>
        /\ fn_res' = OtherShardIndex(my_shard_index, total_shards, rng)
        /\ UNCHANGED <<pk_vars, fz_vars, mu_vars>>

\* The try-order of ReportCrash for a batch of n inputs of which
\* num_outputs_read outputs were read.
FnInputIdxsToTry ==
  \E n \in 0..MaxInputVecSize :
    \E num_outputs_read \in 0..(n + 1) :
      /\ fn_op' = "InputIdxsToTry"
      /\ fn_arg' = <<n, num_outputs_read>>
      /\ fn_res' = InputIdxsToTry(n, num_outputs_read)
      /\ UNCHANGED <<pk_vars, fz_vars, mu_vars>>

FnNext ==
  \/ FnOtherShardIndex
  \/ FnInputIdxsToTry

SpecFn == FnInit /\ [][FnNext]_vars

\* The num_runs and batch_size of the runs of the loop below: the last
\* batch is not a full one.
LoopNumRuns == 3

LoopBatchSize == 2

\* One shard process, of index 0, runs num_runs inputs in batches of
\* batch_size, with a file system that fails no append and no signal.
InitLoop ==
  /\ PkIdle
  /\ FnIdle
  /\ MuIdle
  /\ env \in [exit_on_crash : BOOLEAN, merge_from : {FALSE},
              num_runs : {LoopNumRuns}, batch_size : {LoopBatchSize},
              function_filter : {{}}, input_filter : {{}},
              prune_frequency : {PruneFrequency}]
  /\ \E own \in [Shards -> StartFiles] :
       files = [d \in FileIndices |-> IF d \in Shards THEN own[d] ELSE MergeFromFiles]
  /\ io_faults = 0
  /\ crashes = {}
  /\ sh = [s \in Shards |-> IF s = 0 THEN InitShard ELSE IdleShard]

SpecLoop == InitLoop /\ [][NextPair]_vars

\* The same shard process, without exit_on_crash, with or without a function
\* filter that names the function of feature 2, and with or without an input
\* filter that rejects the input <<1>>.
InitFilter ==
  /\ PkIdle
  /\ FnIdle
  /\ MuIdle
  /\ env \in [exit_on_crash : {FALSE}, merge_from : {FALSE},
              num_runs : {LoopNumRuns}, batch_size : {LoopBatchSize},
              function_filter : {{}, {2}}, input_filter : {{}, {<<1>>}},
              prune_frequency : {PruneFrequency}]
  /\ \E own \in [Shards -> StartFiles] :
       files = [d \in FileIndices |-> IF d \in Shards THEN own[d] ELSE MergeFromFiles]
  /\ io_faults = 0
  /\ crashes = {}
  /\ sh = [s \in Shards |-> IF s = 0 THEN InitShard ELSE IdleShard]

SpecFilter == InitFilter /\ [][NextPair]_vars

\* A seed whose input the target reports no feature for.
FeaturelessSeedFiles ==
  [corpus |-> BlobFileAppend(<<>>, <<0, 0>>), features |-> <<>>]

\* One shard process, of index 0, with or without merge_from, that is
\* started a second time on the workdir its first run has left.
InitRestart ==
  /\ PkIdle
  /\ FnIdle
  /\ MuIdle
  /\ env \in [exit_on_crash : {FALSE}, merge_from : BOOLEAN,
              num_runs : {NumRuns}, batch_size : {BatchSize},
              function_filter : {{}}, input_filter : {{}},
              prune_frequency : {PruneFrequency}]
  /\ \E own \in [Shards -> StartFiles \cup {FeaturelessSeedFiles}] :
       files = [d \in FileIndices |-> IF d \in Shards THEN own[d] ELSE MergeFromFiles]
  /\ io_faults = 0
  /\ crashes = {}
  /\ sh = [s \in Shards |-> IF s = 0 THEN InitShard ELSE IdleShard]

\* The shard process has run to its end without early exit and without a
\* crash, and is started again; the workdir is as it is.
Restart(s) ==
  /\ sh[s].pc = "done"
  /\ ~sh[s].early_exit
  /\ sh[s].num_crash_reports = 0
  /\ sh[s].n_suppressed = 0
  /\ sh[s].restarts = 0
  /\ sh' = [sh EXCEPT ![s] = [InitShard EXCEPT !.restarts = 1]]
  /\ UNCHANGED <<env, files, io_faults, crashes, pk_vars, fn_vars, mu_vars>>

NextRestart ==
  \E s \in Shards :
    \/ Start(s)
    \/ LoadRead(s)
    \/ LoadCallback(s)
    \/ RerunBatch(s)
    \/ ReportCrashTry(s)
    \/ GradeInput(s)
    \/ MergeLoad(s)
    \/ MergeAppend(s)
    \/ InitDone(s)
    \/ MainBatch(s)
    \/ PostBatch(s)
    \/ PruneStep(s)
    \/ FinalTelemetry(s)
    \/ EndFuzz(s)
    \/ Restart(s)

SpecRestart == InitRestart /\ [][NextRestart]_vars

\* Corpus files of three inputs, with no features file: all three are
\* queued for Rerun.  The second one holds the input the target fails on.
RerunSeedCorpora ==
  {BlobFileAppend(BlobFileAppend(BlobFileAppend(<<>>, <<0>>), <<1>>), <<0>>),
   BlobFileAppend(BlobFileAppend(BlobFileAppend(<<>>, <<1>>), CrashInput), <<0>>)}

\* One shard process, of index 0, without exit_on_crash, starts on a corpus
\* file of three inputs without features, with batches of two inputs.
InitRerun ==
  /\ PkIdle
  /\ FnIdle
  /\ MuIdle
  /\ env \in [exit_on_crash : {FALSE}, merge_from : {FALSE},
              num_runs : {LoopNumRuns}, batch_size : {LoopBatchSize},
              function_filter : {{}}, input_filter : {{}},
              prune_frequency : {PruneFrequency}]
  /\ \E c \in RerunSeedCorpora :
       files = [d \in FileIndices |->
                  IF d = 0 THEN [corpus |-> c, features |-> <<>>]
                  ELSE IF d \in Shards THEN [corpus |-> <<>>, features |-> <<>>]
                  ELSE MergeFromFiles]
  /\ io_faults = 0
  /\ crashes = {}
  /\ sh = [s \in Shards |-> IF s = 0 THEN InitShard ELSE IdleShard]

SpecRerun == InitRerun /\ [][NextPair]_vars

\* One shard process, of index 0, with or without pruning.
InitPrune ==
  /\ PkIdle
  /\ FnIdle
  /\ MuIdle
  /\ env \in [exit_on_crash : {FALSE}, merge_from : {FALSE},
              num_runs : {LoopNumRuns}, batch_size : {LoopBatchSize},
              function_filter : {{}}, input_filter : {{}},
              prune_frequency : {0, PruneFrequency}]
  /\ \E own \in [Shards -> StartFiles] :
       files = [d \in FileIndices |-> IF d \in Shards THEN own[d] ELSE MergeFromFiles]
  /\ io_faults = 0
  /\ crashes = {}
  /\ sh = [s \in Shards |-> IF s = 0 THEN InitShard ELSE IdleShard]

SpecPrune == InitPrune /\ [][NextPair]_vars

(***************************************************************************)
(* Centipede::ExportCorpusFromLocalDir: the files of a local directory are *)
(* sharded by the hash of their names and appended to the corpus files of  *)
(* the shards.  A directory is the sequence of its regular files in the    *)
(* order the iterator yields them, each with the hash of its name and its  *)
(* contents (empty for an empty file).                                     *)
(***************************************************************************)
\* The largest hash of a file name, and the most files of a directory.
MaxFilenameHash == 2

MaxLocalFiles == 2

LocalFiles == [filename_hash : 0..MaxFilenameHash, input : Inputs \cup {<<>>}]

LocalDirs == SeqsUpTo(LocalFiles, MaxLocalFiles)

\* sharded_paths[shard]: the files whose name hashes to the shard, in order.
ShardedPaths(local_dir, shard) ==
  SelectSeq(local_dir, LAMBDA entry : entry.filename_hash % TotalShards = shard)

\* existing_hashes: the hashes of the blobs read from the shard's corpus file.
ExistingHashes(corpus_file) ==
  LET blobs == UnpackBytesFromAppendFile(corpus_file).unpacked
  IN {Hash(blobs[k]) : k \in DOMAIN blobs}

RECURSIVE AppendInputs(_, _)
AppendInputs(corpus_file, inputs) ==
  IF inputs = <<>> THEN corpus_file
  ELSE AppendInputs(BlobFileAppend(corpus_file, Head(inputs)), Tail(inputs))

\* The round of one shard: existing_hashes is read once, before the files of
\* the shard are gone through; an empty file or one whose hash is among
\* existing_hashes is ignored, the others are appended.
ExportToShard(corpus_file, paths) ==
  LET existing_hashes == ExistingHashes(corpus_file)
      added == SelectSeq(paths, LAMBDA entry :
                 ~(entry.input = <<>> \/ Hash(entry.input) \in existing_hashes))
  IN [corpus |-> AppendInputs(corpus_file, [k \in DOMAIN added |-> added[k].input]),
      inputs_added |-> Len(added)]

RECURSIVE SumOver(_, _)
SumOver(f, S) ==
  IF S = {} THEN 0 ELSE LET x == CHOOSE y \in S : TRUE IN f[x] + SumOver(f, S \ {x})

\* The call: fn_res keeps the shard files as they were before it and
\* inputs_added.
ExportCorpusFromLocalDir(local_dir) ==
  LET shard_result == [shard \in Shards |->
                         ExportToShard(files[shard].corpus, ShardedPaths(local_dir, shard))]
  IN /\ files' = [d \in FileIndices |->
                    IF d \in Shards
                    THEN [files[d] EXCEPT !.corpus = shard_result[d].corpus]
                    ELSE files[d]]
     /\ fn_res' = <<files, SumOver([shard \in Shards |-> shard_result[shard].inputs_added],
                                  Shards)>>
     /\ UNCHANGED <<env, io_faults, crashes, sh, pk_vars, mu_vars>>

\* The export of a local directory into a workdir.
FnExport ==
  /\ fn_op = "none"
  /\ \E local_dir \in LocalDirs :
       /\ ExportCorpusFromLocalDir(local_dir)
       /\ fn_arg' = <<local_dir>>
  /\ fn_op' = "ExportCorpusFromLocalDir"

\* The same export, run a second time.
FnExportAgain ==
  /\ fn_op = "ExportCorpusFromLocalDir"
  /\ ExportCorpusFromLocalDir(fn_arg[1])
  /\ fn_arg' = fn_arg
  /\ fn_op' = "ExportCorpusFromLocalDir again"

\* A workdir whose shards are empty or hold a seed, and no shard running.
InitExport ==
  /\ PkIdle
  /\ FnIdle
  /\ MuIdle
  /\ env = [exit_on_crash |-> FALSE, merge_from |-> FALSE, num_runs |-> 1, batch_size |-> 1,
            function_filter |-> {}, input_filter |-> {},
            prune_frequency |-> PruneFrequency]
  /\ \E seeds \in [Shards -> SeedCorpusFiles] :
       files = [d \in FileIndices |->
                  IF d \in Shards THEN [corpus |-> seeds[d], features |-> <<>>]
                  ELSE [corpus |-> <<>>, features |-> <<>>]]
  /\ io_faults = 0
  /\ crashes = {}
  /\ sh = [s \in Shards |-> IdleShard]

ExportNext == FnExport \/ FnExportAgain

SpecExport == InitExport /\ [][ExportNext]_vars

\* Shard files of a merged workdir whose first input has its features and
\* whose second has none: the merge load adds the first in its callback and
\* the second in its Rerun.
MergeInOrderFiles ==
  [corpus |-> BlobFileAppend(BlobFileAppend(<<>>, <<0>>), <<1>>),
   features |-> BlobFileAppend(<<>>, PackFeaturesAndHash(<<0>>, <<1>>))]

\* Own shard files of an earlier run that found the input <<0>> only.
SmallRunFiles ==
  [corpus |-> BlobFileAppend(<<>>, <<0>>),
   features |-> BlobFileAppend(<<>>, PackFeaturesAndHash(<<0>>, <<1>>))]

\* One shard process, of index 0, started with or without merge_from, on one
\* of two merged workdirs.
InitMerge ==
  /\ PkIdle
  /\ FnIdle
  /\ MuIdle
  /\ env \in [exit_on_crash : {FALSE}, merge_from : BOOLEAN,
              num_runs : {NumRuns}, batch_size : {BatchSize},
              function_filter : {{}}, input_filter : {{}},
              prune_frequency : {PruneFrequency}]
  /\ \E own \in StartFiles \cup {SmallRunFiles}, merged \in {MergeFromFiles, MergeInOrderFiles} :
       files = [d \in FileIndices |->
                  IF d = 0 THEN own
                  ELSE IF d \in Shards THEN [corpus |-> <<>>, features |-> <<>>]
                  ELSE merged]
  /\ io_faults = MaxIoFaults
  /\ crashes = {}
  /\ sh = [s \in Shards |->
             IF s = 0 THEN [InitShard EXCEPT !.requests_left = MaxExternalRequests]
             ELSE IdleShard]

SpecMerge == InitMerge /\ [][Next]_vars

(***************************************************************************)
(* ByteArrayMutator (byte_array_mutator.h).  The header gives the fields,  *)
(* set_size_alignment, set_max_len and ApplyOneOf; the primitives, the     *)
(* size arithmetic and the crossovers follow the specification's section   *)
(* on the mutator.  A call that draws from the generator is the set of the *)
(* results it can give.                                                    *)
(***************************************************************************)
\* The longest data; an insertion that would make the data longer is not
\* taken.
MaxDataLen == 3

\* The largest argument of set_size_alignment.
MaxSizeAlignment == 2

\* The longest other input of a crossover.
MaxOtherLen == 2

\* The rounds of ApplyOneOf's loop.
kApplyOneOfIters == 10

\* The entries AddToDictionary has added, and the pairs of the CMP
\* dictionary.
Dictionary == {<<1, 1>>, <<0, 1, 0>>}

CmpPairs == {[A |-> <<0, 0>>, B |-> <<1, 1>>], [A |-> <<0, 1>>, B |-> <<1, 0, 1>>]}

\* The least size of an entry of the CmpDictionary.
kMinEntrySize == 2

\* DictEntry::operator<: memcmp of the entries, whose bytes_ are padded with
\* zeros to kMaxEntrySize bytes and followed by size_.  The bytes beyond the
\* longer entry are zeros in both.
DictEntryByte(e, k) == IF k <= Len(e) THEN e[k] ELSE 0

DictEntryLess(a, b) ==
  LET n == Max(Len(a), Len(b))
  IN \/ \E k \in 1..n :
          /\ DictEntryByte(a, k) < DictEntryByte(b, k)
          /\ \A j \in 1..(k - 1) : DictEntryByte(a, j) = DictEntryByte(b, j)
     \/ /\ \A j \in 1..n : DictEntryByte(a, j) = DictEntryByte(b, j)
        /\ Len(a) < Len(b)

PairLess(p, q) ==
  DictEntryLess(p.A, q.A) \/ (p.A = q.A /\ DictEntryLess(p.B, q.B))

\* dictionary_ of the CmpDictionary that holds pairs: the pairs sorted by A.
RECURSIVE SortedPairs(_)
SortedPairs(pairs) ==
  IF pairs = {} THEN <<>>
  ELSE LET first == CHOOSE p \in pairs : \A q \in pairs \ {p} : PairLess(p, q)
       IN <<first>> \o SortedPairs(pairs \ {first})

\* The index of the first pair of dictionary whose A is not below key.
LowerBound(dictionary, key) ==
  LET below == {i \in DOMAIN dictionary : DictEntryLess(dictionary[i].A, key)}
  IN Cardinality(below) + 1

\* The number of pairs of dictionary, from index lb on, that come before
\* the first pair whose A is not a prefix of bytes.
PrefixRun(dictionary, lb, bytes) ==
  LET stops == {i \in lb..Len(dictionary) : ~IsPrefix(dictionary[i].A, bytes)}
      stop == IF stops = {} THEN Len(dictionary) + 1
              ELSE CHOOSE i \in stops : \A j \in stops : i <= j
  IN stop - lb

\* A SuggestReplacement that fills suggestions beyond its capacity.
SuggestReplacementUncapped(bytes, dictionary, capacity) ==
  LET lb == LowerBound(dictionary, Prefix(bytes, Min(Len(bytes), kMinEntrySize)))
  IN [i \in 1..PrefixRun(dictionary, lb, bytes) |-> dictionary[lb + i - 1].B]

\* suggestions after SuggestReplacement(bytes, suggestions) on a
\* dictionary_, for suggestions of a capacity: from the lower bound of the
\* first bytes of bytes, the B of each pair while A is a prefix of bytes.
SuggestReplacement(bytes, dictionary, capacity) ==
  LET lb == LowerBound(dictionary, Prefix(bytes, Min(Len(bytes), kMinEntrySize)))
      n == Min(PrefixRun(dictionary, lb, bytes), capacity)
  IN [i \in 1..n |-> dictionary[lb + i - 1].B]

\* Non-empty inputs of at most n bytes.
MuInputs(n) == SeqsUpTo(BlobBytes, n) \ {<<>>}

RoundUp(n, a) == ((n + a - 1) \div a) * a

RoundDown(n, a) == (n \div a) * a

\* RoundUpToAdd without the cap of max_len.
RoundUpToAddUncapped(curr_size, to_add) ==
  RoundUp(curr_size + to_add, mu_size_alignment) - curr_size

\* RoundUpToAdd without the rounding: the bytes asked for, up to max_len.
RoundUpToAddUnaligned(curr_size, to_add) ==
  Max(Min(curr_size + to_add, mu_max_len) - curr_size, 0)

\* The number of bytes to add to curr_size so that the size is aligned and
\* at most max_len_.
RoundUpToAdd(curr_size, to_add) ==
  LET up == RoundUp(curr_size + to_add, mu_size_alignment)
      target == IF up > mu_max_len THEN RoundDown(mu_max_len, mu_size_alignment) ELSE up
  IN Max(target - curr_size, 0)

\* A RoundDownToRemove that ignores max_len.
RoundDownToRemoveIgnoresMaxLen(curr_size, to_remove) ==
  LET down == RoundDown(curr_size - to_remove, mu_size_alignment)
      target == IF down = 0 THEN Min(curr_size, mu_size_alignment) ELSE down
  IN curr_size - target

\* A RoundDownToRemove without the step that keeps the size from 0.
RoundDownToRemoveToZero(curr_size, to_remove) ==
  LET down == RoundDown(curr_size - to_remove, mu_size_alignment)
      target == IF curr_size > mu_max_len THEN Min(down, mu_max_len) ELSE down
  IN curr_size - target

\* The number of bytes to remove from curr_size so that the size is aligned,
\* with the spec's steps: round down, never 0, at most max_len_.
RoundDownToRemove(curr_size, to_remove) ==
  LET down == RoundDown(curr_size - to_remove, mu_size_alignment)
      nonzero == IF down = 0 THEN Min(curr_size, mu_size_alignment) ELSE down
      target == IF curr_size > mu_max_len THEN Min(nonzero, mu_max_len) ELSE nonzero
  IN curr_size - target

\* data with bytes written over it from offset pos, inserted at offset pos,
\* and with n bytes erased from offset pos.
Overwrite(data, pos, bytes) ==
  [k \in 1..Len(data) |->
     IF k > pos /\ k <= pos + Len(bytes) THEN bytes[k - pos] ELSE data[k]]

Insert(data, pos, bytes) ==
  SubSeq(data, 1, pos) \o bytes \o SubSeq(data, pos + 1, Len(data))

Erase(data, pos, n) ==
  SubSeq(data, 1, pos) \o SubSeq(data, pos + n + 1, Len(data))

\* What a mutator function can leave: the data, and what it returns.
Mutated(ds) == {[data |-> d, ok |-> TRUE] : d \in ds}

NotMutated(data) == {[data |-> data, ok |-> FALSE]}

\* The results of at most MaxDataLen bytes.
Fits(os) == {o \in os : Len(o.data) <= MaxDataLen}

\* The bytes of the model have one bit.
FlipBit(data) ==
  Mutated({Overwrite(data, pos, <<1 - data[pos + 1]>>) : pos \in 0..(Len(data) - 1)})

SwapBytes(data) ==
  IF Len(data) < 2 THEN NotMutated(data)
  ELSE Mutated({Overwrite(Overwrite(data, p[1], <<data[p[2] + 1]>>), p[2], <<data[p[1] + 1]>>) :
                  p \in {q \in (0..(Len(data) - 1)) \X (0..(Len(data) - 1)) : q[1] # q[2]}})

ChangeByte(data) ==
  Mutated({Overwrite(data, p[1], <<p[2]>>) : p \in (0..(Len(data) - 1)) \X BlobBytes})

OverwriteFromDictionary(data) ==
  UNION {IF Len(e) > Len(data) THEN NotMutated(data)
         ELSE Mutated({Overwrite(data, pos, e) : pos \in 0..(Len(data) - Len(e))}) :
           e \in Dictionary}

OverwriteFromCmpDictionary(data) ==
  LET hits == {h \in (0..(Len(data) - 1)) \X {p.B : p \in CmpPairs} :
                 /\ \E i \in 1..Cardinality(CmpPairs) :
                      LET suggestions ==
                            SuggestReplacement(Suffix(data, h[1] + 1),
                                               SortedPairs(CmpPairs),
                                               Cardinality(CmpPairs))
                      IN i <= Len(suggestions) /\ suggestions[i] = h[2]
                 /\ Len(h[2]) <= Len(data) - h[1]}
  IN IF hits = {} THEN NotMutated(data)
     ELSE Mutated({Overwrite(data, h[1], h[2]) : h \in hits})

InsertBytes(data) ==
  Fits(UNION {LET k == RoundUpToAdd(Len(data), to_add)
              IN IF k = 0 THEN NotMutated(data)
                 ELSE Mutated({Insert(data, p[1], p[2]) :
                                 p \in (0..Len(data)) \X [1..k -> BlobBytes]}) :
                to_add \in 1..MaxDataLen})

InsertFromDictionary(data) ==
  Fits(UNION {IF RoundUpToAdd(Len(data), Len(e)) # Len(e) THEN NotMutated(data)
              ELSE Mutated({Insert(data, pos, e) : pos \in 0..Len(data)}) :
                e \in Dictionary})

EraseBytes(data) ==
  UNION {LET n == RoundDownToRemove(Len(data), to_remove)
         IN IF n = 0 THEN NotMutated(data)
            ELSE Mutated({Erase(data, pos, n) : pos \in 0..(Len(data) - n)}) :
           to_remove \in 1..Len(data)}

\* The crossovers return nothing: the data they can leave.
CrossOverInsert(data, other) ==
  {d \in UNION {LET size == RoundUpToAdd(Len(data), size0)
                IN IF size = 0 \/ size > Len(other) THEN {data}
                   ELSE {Insert(data, p[2], SubSeq(other, p[1] + 1, p[1] + size)) :
                           p \in (0..(Len(other) - size)) \X (0..Len(data))} :
                  size0 \in 1..Len(other)} :
     Len(d) <= MaxDataLen}

CrossOverOverwrite(data, other) ==
  UNION {{Overwrite(data, pos,
                    SubSeq(other, p[1] + 1, p[1] + Min(p[2], Len(data) - pos))) :
            pos \in 0..(Len(data) - 1)} :
           p \in {q \in (0..(Len(other) - 1)) \X (1..Len(other)) : q[1] + q[2] <= Len(other)}}

CrossOver(data, other) == CrossOverOverwrite(data, other) \cup CrossOverInsert(data, other)

\* The functions each dispatcher chooses from.
Fns(dispatcher) ==
  CASE dispatcher = "Mutate" ->
         <<"MutateSameSize", "MutateIncreaseSize", "MutateDecreaseSize">>
    [] dispatcher = "MutateSameSize" ->
         <<"FlipBit", "SwapBytes", "ChangeByte", "OverwriteFromDictionary",
           "OverwriteFromCmpDictionary">>
    [] dispatcher = "MutateIncreaseSize" -> <<"InsertBytes", "InsertFromDictionary">>
    [] dispatcher = "MutateDecreaseSize" -> <<"EraseBytes">>

Dispatchers == {"Mutate", "MutateSameSize", "MutateIncreaseSize", "MutateDecreaseSize"}

\* (this->*fn)(data) for a primitive fn.
Primitive(fn, data) ==
  CASE fn = "FlipBit" -> FlipBit(data)
    [] fn = "SwapBytes" -> SwapBytes(data)
    [] fn = "ChangeByte" -> ChangeByte(data)
    [] fn = "OverwriteFromDictionary" -> OverwriteFromDictionary(data)
    [] fn = "OverwriteFromCmpDictionary" -> OverwriteFromCmpDictionary(data)
    [] fn = "InsertBytes" -> InsertBytes(data)
    [] fn = "InsertFromDictionary" -> InsertFromDictionary(data)
    [] fn = "EraseBytes" -> EraseBytes(data)

\* No mutator function is running, and the data is non-empty, as every
\* mutation expects.
Callable == mu_stack = <<>> /\ mu_data # <<>>

\* A call of a primitive from outside the dispatchers.
CallPrimitive(fn) ==
  /\ \E o \in Primitive(fn, mu_data) :
       /\ mu_data' = o.data
       /\ mu_ret' = o.ok
  /\ mu_op' = fn
  /\ UNCHANGED <<mu_size_alignment, mu_max_len, mu_stack, pk_vars, fz_vars, fn_vars>>

\* A call of a dispatcher from outside: ApplyOneOf starts on its functions.
CallDispatcher(dispatcher) ==
  /\ mu_stack' = <<[fn |-> dispatcher, iter |-> 0]>>
  /\ mu_op' = dispatcher
  /\ mu_ret' = "running"
  /\ UNCHANGED <<mu_data, mu_size_alignment, mu_max_len, pk_vars, fz_vars, fn_vars>>

\* An ApplyOneOf that goes on to the next round after a mutation.
ApplyOneOfIgnoresResult ==
  LET depth == Len(mu_stack)
      top == mu_stack[depth]
      fns == Fns(top.fn)
  IN /\ mu_stack # <<>>
     /\ IF top.iter >= kApplyOneOfIters
        THEN /\ mu_data' = mu_data
             /\ IF depth = 1
                THEN mu_stack' = <<>> /\ mu_ret' = FALSE
                ELSE /\ mu_stack' = [SubSeq(mu_stack, 1, depth - 1)
                                       EXCEPT ![depth - 1].iter = @ + 1]
                     /\ mu_ret' = mu_ret
        ELSE \E mut_idx \in 1..Len(fns) :
               IF fns[mut_idx] \in Dispatchers
               THEN /\ mu_stack' = Append(mu_stack, [fn |-> fns[mut_idx], iter |-> 0])
                    /\ UNCHANGED <<mu_data, mu_ret>>
               ELSE \E o \in Primitive(fns[mut_idx], mu_data) :
                      /\ mu_data' = o.data
                      /\ mu_stack' = [mu_stack EXCEPT ![depth].iter = @ + 1]
                      /\ mu_ret' = mu_ret
     /\ UNCHANGED <<mu_op, mu_size_alignment, mu_max_len, pk_vars, fz_vars, fn_vars>>

\* One round of the loop of the innermost ApplyOneOf, or its return after
\* the last round.  A function that returns true makes every ApplyOneOf
\* that is running return true; a dispatcher that returns false ends one
\* round of the dispatcher that called it.
ApplyOneOf ==
  LET depth == Len(mu_stack)
      top == mu_stack[depth]
      fns == Fns(top.fn)
  IN /\ mu_stack # <<>>
     /\ IF top.iter >= kApplyOneOfIters
        THEN /\ mu_data' = mu_data
             /\ IF depth = 1
                THEN mu_stack' = <<>> /\ mu_ret' = FALSE
                ELSE /\ mu_stack' = [SubSeq(mu_stack, 1, depth - 1)
                                       EXCEPT ![depth - 1].iter = @ + 1]
                     /\ mu_ret' = mu_ret
        ELSE \E mut_idx \in 1..Len(fns) :
               IF fns[mut_idx] \in Dispatchers
               THEN /\ mu_stack' = Append(mu_stack, [fn |-> fns[mut_idx], iter |-> 0])
                    /\ UNCHANGED <<mu_data, mu_ret>>
               ELSE \E o \in Primitive(fns[mut_idx], mu_data) :
                      /\ mu_data' = o.data
                      /\ IF o.ok
                         THEN mu_stack' = <<>> /\ mu_ret' = TRUE
                         ELSE /\ mu_stack' = [mu_stack EXCEPT ![depth].iter = @ + 1]
                              /\ mu_ret' = mu_ret
     /\ UNCHANGED <<mu_op, mu_size_alignment, mu_max_len, pk_vars, fz_vars, fn_vars>>

Mutate == Callable /\ CallDispatcher("Mutate")

MutateSameSize == Callable /\ CallDispatcher("MutateSameSize")

MutateIncreaseSize == Callable /\ CallDispatcher("MutateIncreaseSize")

MutateDecreaseSize == Callable /\ CallDispatcher("MutateDecreaseSize")

CallFlipBit == Callable /\ CallPrimitive("FlipBit")

CallSwapBytes == Callable /\ CallPrimitive("SwapBytes")

CallChangeByte == Callable /\ CallPrimitive("ChangeByte")

CallOverwriteFromDictionary == Callable /\ CallPrimitive("OverwriteFromDictionary")

CallOverwriteFromCmpDictionary == Callable /\ CallPrimitive("OverwriteFromCmpDictionary")

CallInsertBytes == Callable /\ CallPrimitive("InsertBytes")

CallInsertFromDictionary == Callable /\ CallPrimitive("InsertFromDictionary")

CallEraseBytes == Callable /\ CallPrimitive("EraseBytes")

\* A call of a crossover on the data and another non-empty input.
CallCrossOver(fn) ==
  /\ \E other \in MuInputs(MaxOtherLen) :
       mu_data' \in (CASE fn = "CrossOverInsert" -> CrossOverInsert(mu_data, other)
                       [] fn = "CrossOverOverwrite" -> CrossOverOverwrite(mu_data, other)
                       [] fn = "CrossOver" -> CrossOver(mu_data, other))
  /\ mu_op' = fn
  /\ mu_ret' = "void"
  /\ UNCHANGED <<mu_size_alignment, mu_max_len, mu_stack, pk_vars, fz_vars, fn_vars>>

CallCrossOverInsert == Callable /\ CallCrossOver("CrossOverInsert")

CallCrossOverOverwrite == Callable /\ CallCrossOver("CrossOverOverwrite")

CallCrossOverBoth == Callable /\ CallCrossOver("CrossOver")

\* A set_size_alignment that accepts every alignment.
SetSizeAlignmentUnchecked(size_alignment) ==
  /\ mu_stack = <<>>
  /\ mu_ret' = TRUE
  /\ mu_size_alignment' = size_alignment
  /\ mu_op' = "set_size_alignment"
  /\ UNCHANGED <<mu_data, mu_max_len, mu_stack, pk_vars, fz_vars>>

\* set_size_alignment and set_max_len, between two mutations.
set_size_alignment(size_alignment) ==
  /\ mu_stack = <<>>
  /\ IF mu_max_len # SizeMax /\ mu_max_len % size_alignment # 0
     THEN mu_ret' = FALSE /\ mu_size_alignment' = mu_size_alignment
     ELSE mu_ret' = TRUE /\ mu_size_alignment' = size_alignment
  /\ mu_op' = "set_size_alignment"
  /\ UNCHANGED <<mu_data, mu_max_len, mu_stack, pk_vars, fz_vars>>

set_max_len(max_len) ==
  /\ mu_stack = <<>>
  /\ IF max_len # SizeMax /\ max_len % mu_size_alignment # 0
     THEN mu_ret' = FALSE /\ mu_max_len' = mu_max_len
     ELSE mu_ret' = TRUE /\ mu_max_len' = max_len
  /\ mu_op' = "set_max_len"
  /\ UNCHANGED <<mu_data, mu_size_alignment, mu_stack, pk_vars, fz_vars>>

CallSetSizeAlignment ==
  \E size_alignment \in 1..MaxSizeAlignment :
    set_size_alignment(size_alignment) /\ UNCHANGED fn_vars

CallSetMaxLen ==
  \E max_len \in (0..MaxDataLen) \cup {SizeMax} :
    set_max_len(max_len) /\ UNCHANGED fn_vars

\* A mutator as constructed, and a non-empty input to mutate.
MuInit ==
  /\ PkIdle
  /\ FzIdle
  /\ FnIdle
  /\ mu_data \in MuInputs(MaxDataLen)
  /\ mu_size_alignment = 1
  /\ mu_max_len = SizeMax
  /\ mu_stack = <<>>
  /\ mu_op = "none"
  /\ mu_ret = "none"

MuNext ==
  \/ CallSetSizeAlignment
  \/ CallSetMaxLen
  \/ Mutate
  \/ MutateSameSize
  \/ MutateIncreaseSize
  \/ MutateDecreaseSize
  \/ ApplyOneOf
  \/ CallFlipBit
  \/ CallSwapBytes
  \/ CallChangeByte
  \/ CallOverwriteFromDictionary
  \/ CallOverwriteFromCmpDictionary
  \/ CallInsertBytes
  \/ CallInsertFromDictionary
  \/ CallEraseBytes
  \/ CallCrossOverInsert
  \/ CallCrossOverOverwrite
  \/ CallCrossOverBoth

SpecMut == MuInit /\ [][MuNext]_vars

\* The largest size alignment, max length and to_add of the calls below.
FnMaxSizeAlignment == 4

FnMaxMaxLen == 16

FnMaxToAdd == 12

\* A mutator as constructed, with no data: only its size_alignment_ and
\* max_len_ are used below.
SizeInit == PkIdle /\ FzIdle /\ FnIdle /\ MuIdle

\* A call set_size_alignment(size_alignment).
FnSetSizeAlignment ==
  \E size_alignment \in 1..FnMaxSizeAlignment :
    /\ set_size_alignment(size_alignment)
    /\ fn_op' = "set_size_alignment"
    /\ fn_arg' = <<size_alignment>>
    /\ fn_res' = <<>>

\* A call set_max_len(max_len).
FnSetMaxLen ==
  \E max_len \in (0..FnMaxMaxLen) \cup {SizeMax} :
    /\ set_max_len(max_len)
    /\ fn_op' = "set_max_len"
    /\ fn_arg' = <<max_len>>
    /\ fn_res' = <<>>

\* A call RoundUpToAdd(curr_size, to_add) under the current size_alignment_
\* and max_len_.
FnRoundUpToAdd ==
  \E curr_size \in 0..(FnMaxMaxLen + 1) :
    \E to_add \in 0..FnMaxToAdd :
      /\ fn_op' = "RoundUpToAdd"
      /\ fn_arg' = <<curr_size, to_add>>
      /\ fn_res' = RoundUpToAdd(curr_size, to_add)
      /\ mu_op' = "none"
      /\ mu_ret' = "none"
      /\ UNCHANGED <<mu_data, mu_size_alignment, mu_max_len, mu_stack, pk_vars, fz_vars>>

\* A call RoundDownToRemove(curr_size, to_remove), of at most curr_size
\* bytes, under the current size_alignment_ and max_len_.
FnRoundDownToRemove ==
  \E curr_size \in 0..(FnMaxMaxLen + 1) :
    \E to_remove \in 0..curr_size :
      /\ fn_op' = "RoundDownToRemove"
      /\ fn_arg' = <<curr_size, to_remove>>
      /\ fn_res' = RoundDownToRemove(curr_size, to_remove)
      /\ mu_op' = "none"
      /\ mu_ret' = "none"
      /\ UNCHANGED <<mu_data, mu_size_alignment, mu_max_len, mu_stack, pk_vars, fz_vars>>

SizeNext ==
  \/ FnSetSizeAlignment
  \/ FnSetMaxLen
  \/ FnRoundUpToAdd
  \/ FnRoundDownToRemove

SpecSize == SizeInit /\ [][SizeNext]_vars

\* The largest num_mutants of the MutateMany calls below.
ManyMaxMutants == 2

\* The inputs of the MutateMany calls below: non-empty vectors of non-empty
\* inputs.
ManyInputs == {<< <<0>> >>, << <<1>>, <<0, 1>> >>, << <<1, 1>>, <<0>> >>}

\* The crossover levels of the MutateMany calls below.
CrossoverLevels == {0, 50, 100}

\* What a dispatcher of primitives can leave when it returns true, and
\* whether it can return false: each of its tries has then failed and left
\* the data as it was.
Successes(dispatcher, data) ==
  UNION {{o.data : o \in {q \in Primitive(Fns(dispatcher)[k], data) : q.ok}} :
           k \in DOMAIN Fns(dispatcher)}

CanFail(dispatcher, data) ==
  \E k \in DOMAIN Fns(dispatcher) :
    \E o \in Primitive(Fns(dispatcher)[k], data) : ~o.ok

\* What Mutate(data) can leave.
MutateOutcomes(data) ==
  LET fns == {Fns("Mutate")[k] : k \in DOMAIN Fns("Mutate")}
  IN UNION {Successes(d, data) : d \in fns}
       \cup (IF \E d \in fns : CanFail(d, data) THEN {data} ELSE {})

\* The clone of inputs[i], crossed over with some input with probability
\* crossover_level / 100.
Crossed(inputs, i, crossover_level) ==
  (IF crossover_level < 100 THEN {inputs[i]} ELSE {})
    \cup (IF crossover_level > 0
          THEN UNION {CrossOver(inputs[i], inputs[j]) : j \in DOMAIN inputs}
          ELSE {})

\* A mutant that is left as it is, empty or not.
Unrestored(input, mutant) == mutant

\* A mutant that has become empty is restored to its source input.
Restored(input, mutant) == IF mutant = <<>> THEN input ELSE mutant

\* The mutants a round of MutateMany can produce.
MutantsOf(inputs, crossover_level) ==
  UNION {UNION {{Restored(inputs[i], m) : m \in MutateOutcomes(x)} :
                  x \in Crossed(inputs, i, crossover_level)} :
           i \in DOMAIN inputs}

\* The contents of mutants after MutateMany(inputs, num_mutants,
\* crossover_level, mutants).
MutateMany(inputs, num_mutants, crossover_level, mutants) ==
  [1..num_mutants -> MutantsOf(inputs, crossover_level)]

\* A mutator whose size alignment and max length have been set, and a
\* vector of mutants that holds more than any call below asks for.
ManyInit ==
  /\ PkIdle
  /\ FzIdle
  /\ fn_op = "none"
  /\ fn_arg = <<>>
  /\ fn_res = [i \in 1..(ManyMaxMutants + 1) |-> <<0>>]
  /\ mu_data = <<>>
  /\ mu_size_alignment \in 1..MaxSizeAlignment
  /\ mu_max_len \in {l \in (0..MaxDataLen) \cup {SizeMax} :
                        l = SizeMax \/ l % mu_size_alignment = 0}
  /\ mu_stack = <<>>
  /\ mu_op = "none"
  /\ mu_ret = "none"

\* One call of MutateMany.
FnMutateMany ==
  \E inputs \in ManyInputs :
    \E num_mutants \in 0..ManyMaxMutants :
      \E crossover_level \in CrossoverLevels :
        /\ fn_op = "none"
        /\ fn_op' = "MutateMany"
        /\ fn_arg' = <<inputs, num_mutants, crossover_level>>
        /\ fn_res' \in MutateMany(inputs, num_mutants, crossover_level, fn_res)
        /\ UNCHANGED <<pk_vars, fz_vars, mu_vars>>

ManyNext == FnMutateMany

SpecMany == ManyInit /\ [][ManyNext]_vars

\* The largest entry, dictionary and capacity of the SuggestReplacement
\* calls below.
MaxEntryLen == 3

MaxDictSize == 3

\* The CMP pairs of the calls below: each A, of first byte 0, with one B of
\* its size.
Complement(bytes) == [k \in DOMAIN bytes |-> 1 - bytes[k]]

CmpUniverse ==
  {[A |-> a, B |-> Complement(a)] :
     a \in {e \in SeqsUpTo(BlobBytes, MaxEntryLen) : Len(e) >= kMinEntrySize /\ e[1] = 0}}

CmpDictionaries == {d \in SUBSET CmpUniverse : Cardinality(d) <= MaxDictSize}

\* A CmpDictionary is about to be queried; suggestions holds an old
\* suggestion.
SuggestInit ==
  /\ PkIdle
  /\ FzIdle
  /\ MuIdle
  /\ fn_op = "none"
  /\ fn_arg = <<>>
  /\ fn_res = << <<0, 0>> >>

\* One call SuggestReplacement(bytes, suggestions) on a dictionary.
FnSuggestReplacement ==
  \E pairs \in CmpDictionaries :
    \E bytes \in SeqsUpTo(BlobBytes, MaxEntryLen + 1) :
      \E capacity \in {0, 1, MaxDictSize} :
        /\ fn_op = "none"
        /\ fn_op' = "SuggestReplacement"
        /\ fn_arg' = <<bytes, pairs, capacity>>
        /\ fn_res' = SuggestReplacement(bytes, SortedPairs(pairs), capacity)
        /\ UNCHANGED <<pk_vars, fz_vars, mu_vars>>

SuggestNext == FnSuggestReplacement

SpecSuggest == SuggestInit /\ [][SuggestNext]_vars

(***************************************************************************)
(* What a file holds, told from what the writer packs: the blobs of        *)
(* universe whose frames, one after the other, make up the bytes.  A frame *)
(* a failed append cut short ends the list.                                *)
(***************************************************************************)
RECURSIVE FramesWritten(_, _)
FramesWritten(bytes, universe) ==
  LET whole == {b \in universe : IsPrefix(PackBytesForAppendFile(b), bytes)}
      b == CHOOSE x \in whole : TRUE
  IN IF bytes = <<>> \/ whole = {} THEN <<>>
     ELSE <<b>> \o FramesWritten(Suffix(bytes, Len(PackBytesForAppendFile(b)) + 1), universe)

\* The feature vectors a features file may record, and the records.
FeatureVecs == SeqsUpTo(Features, Cardinality(Features))

FeatureBlobs == {PackFeaturesAndHash(i, fv) : i \in Inputs, fv \in FeatureVecs}

InputsWritten(d) == FramesWritten(files[d].corpus, Inputs)

FeaturesWritten(d) == FramesWritten(files[d].features, FeatureBlobs)

\* Whether a shard process is in its FuzzingLoop.
Running(r) == r.pc \notin {"idle", "start", "done", "aborted"}

\* C1: once early exit has been requested, a shard in its FuzzingLoop (from
\* the startup load on) invokes the execution callback on no further batch
\* and grades no further input.
C1_NoWorkAfterEarlyExit ==
  [][\A s \in Shards :
       (sh[s].early_exit /\ Running(sh[s]) /\ sh'[s].pc # "aborted") =>
          /\ sh'[s].n_exec = sh[s].n_exec
          /\ sh'[s].n_graded = sh[s].n_graded]_vars

\* C2: every run of FuzzingLoop that does not abort on a failed CHECK leaves
\* the batch loop, performs the final telemetry step and then logs the
\* "end-fuzz" line as its last action.
C2_AlwaysFinalizes ==
  \A s \in Shards :
    (sh[s].pc = "start") ~>
       (\/ sh[s].pc = "aborted"
        \/ sh[s].pc = "done" /\ sh[s].log = <<"latest", "end-fuzz">>)

\* A run that an early exit request ended before num_runs was exhausted.
C2_Witness ==
  \E s \in Shards :
    /\ sh[s].pc = "done"
    /\ sh[s].early_exit
    /\ sh[s].new_runs < env.num_runs
    /\ sh[s].log = <<"latest", "end-fuzz">>

\* C3: when shard R loads the files of shard W while W appends to them,
\* every input R adds to its corpus is a complete input W appended, graded
\* with exactly the feature vector W recorded for its hash (and kept with
\* that vector less the features frequent in R).
C3_PeerLoadAdmitsWhatWasWritten ==
  [][\A R \in Shards :
       LET r == sh[R]
           W == r.load_ctx.idx
           rec == sh'[R].corpus[Len(sh'[R].corpus)]
       IN (/\ r.pc = "load_cb"
           /\ r.load_ctx.ret = "peer"
           /\ Len(sh'[R].corpus) > Len(r.corpus)) =>
             /\ \E k \in DOMAIN InputsWritten(W) : InputsWritten(W)[k] = rec.data
             /\ \E fv \in FeatureVecs \ {<<>>} :
                  /\ \E k \in DOMAIN FeaturesWritten(W) :
                       FeaturesWritten(W)[k] = PackFeaturesAndHash(rec.data, fv)
                  /\ Head(r.load_q).features = fv
                  /\ rec.features = PruneFrequentFeatures(r.fs, fv)]_vars

\* A peer load whose read ended inside a frame and that added to the corpus
\* of R an input R had not appended itself.
C3_Witness ==
  \E R \in Shards :
    /\ sh[R].pc = "load_cb"
    /\ sh[R].load_ctx.ret = "peer"
    /\ sh[R].load_ctx.torn
    /\ sh[R].load_q = <<>>
    /\ \E k \in DOMAIN sh[R].corpus :
         /\ sh[R].corpus[k].unseen
         /\ \A j \in DOMAIN InputsWritten(R) : InputsWritten(R)[j] # sh[R].corpus[k].data

\* C4: in every step, the new content of a shard's corpus file and of its
\* features file has the previous content as a byte prefix.
C4_OwnFilesOnlyGrow ==
  [][\A s \in Shards :
       /\ IsPrefix(files[s].corpus, files'[s].corpus)
       /\ IsPrefix(files[s].features, files'[s].features)]_vars

\* A run that has appended to both files it started with.
C4_Witness ==
  \E s \in Shards :
    /\ sh[s].pc = "done"
    /\ Len(files[s].corpus) > Len(EarlierRunFiles.corpus)
    /\ Len(files[s].features) > Len(EarlierRunFiles.features)

\* C5: a step changes the shard files of index d only if it is a step of
\* the shard process of index d; the files of the merge-from workdir are
\* never changed.
C5_SingleWriter ==
  [][\A d \in FileIndices :
       files'[d] # files[d] => (d \in Shards /\ sh'[d] # sh[d])]_vars

\* A merge that has appended an input of the merge-from workdir to the
\* shard's own corpus file.
C5_Witness ==
  \E s \in Shards :
    /\ env.merge_from
    /\ sh[s].pc = "init"
    /\ sh[s].corpus # <<>>
    /\ files[s].corpus = BlobFileAppend(<<>>, <<1>>)
    /\ files[s].features = <<>>
    /\ files[MergeFromIndex] = MergeFromFiles

\* Number of the frames of blobs bs that lie wholly within the first n bytes.
RECURSIVE CompleteFrames(_, _)
CompleteFrames(bs, n) ==
  IF bs = <<>> \/ Len(PackBytesForAppendFile(Head(bs))) > n THEN 0
  ELSE 1 + CompleteFrames(Tail(bs), n - Len(PackBytesForAppendFile(Head(bs))))

\* C6: unpacking a strict byte prefix of pack(b1)++...++pack(bk) returns
\* exactly the blobs whose frames are complete in the bytes read, a prefix of
\* [b1..bk], with their hashes; a truncated blob is never returned.
C6_PrefixUnpack ==
  (pk_read >= 0 /\ pk_read < Len(pk_file)) =>
     /\ pk_unpacked = Prefix(pk_blobs, CompleteFrames(pk_blobs, pk_read))
     /\ IsPrefix(pk_unpacked, pk_blobs)
     /\ Len(pk_hashes) = Len(pk_unpacked)

\* A read that ends inside the payload of the second frame.
C6_Witness ==
  /\ Len(pk_blobs) = 2
  /\ Len(pk_blobs[2]) = 2
  /\ pk_read = Len(PackBytesForAppendFile(pk_blobs[1])) + Len(kPackMagic) + 2
  /\ pk_unpacked = <<pk_blobs[1]>>

\* C7: unpacking the whole concatenation of the packed blobs yields the
\* blobs in order, empty ones included, and for each its hash of HashLen
\* characters.
C7_RoundTrip ==
  (pk_read = Len(pk_file)) =>
     /\ pk_unpacked = pk_blobs
     /\ pk_hashes = [i \in 1..Len(pk_blobs) |-> Hash(pk_blobs[i])]
     /\ \A i \in 1..Len(pk_hashes) : Len(pk_hashes[i]) = HashLen

\* A whole file of an empty blob followed by a non-empty one, read back.
C7_Witness ==
  /\ Len(pk_blobs) = 2
  /\ pk_blobs[1] = <<>>
  /\ Len(pk_blobs[2]) = 2
  /\ pk_read = Len(pk_file)
  /\ pk_unpacked = pk_blobs

\* C8 (as the spec states it): every record of the in-memory corpus was
\* added with a feature whose frequency was zero at that moment.
C8_EveryRecordHadUnseen ==
  \A s \in Shards : \A k \in DOMAIN sh[s].corpus : sh[s].corpus[k].unseen

\* C8 (amended): every record of the in-memory corpus was added with a
\* feature whose frequency was zero at that moment, but for the dummy input
\* FuzzingLoop adds, with no features, to a corpus that is empty after the
\* startup loads.
C8_EveryRecordButDummyHadUnseen ==
  \A s \in Shards : \A k \in DOMAIN sh[s].corpus :
    \/ sh[s].corpus[k].unseen
    \/ /\ k = 1
       /\ sh[s].corpus[k].data = DummyValidInput
       /\ sh[s].corpus[k].features = <<>>

\* A corpus that holds the dummy input and, after it, an input RunBatch
\* admitted.
C8_Witness ==
  \E s \in Shards :
    /\ Len(sh[s].corpus) = 2
    /\ ~sh[s].corpus[1].unseen
    /\ sh[s].corpus[2].unseen
    /\ sh[s].n_graded > 0

C10_FrequenciesMonotonic ==
  [][\A s \in Shards :
       sh'[s].pc # "aborted" =>
         /\ \A f \in Features : sh'[s].fs[f] >= sh[s].fs[f]
         /\ sh'[s].fs # sh[s].fs =>
              /\ sh[s].pc \in {"grade", "load_cb"}
              /\ sh'[s].n_graded = sh[s].n_graded + 1
              /\ \E fv \in FeatureVecs : sh'[s].fs = IncrementFrequencies(sh[s].fs, fv)
         /\ (sh'[s].n_graded = sh[s].n_graded + 1 /\ sh'[s].corpus = sh[s].corpus) =>
              sh'[s].fs = sh[s].fs
         /\ sh[s].pc = "prune" => sh'[s].fs = sh[s].fs]_vars

\* A feature set with a feature seen twice and a feature seen once, between
\* two batches of the main loop.
C10_Witness ==
  \E s \in Shards :
    /\ \E f \in Features : sh[s].fs[f] >= 2
    /\ \E f \in Features : sh[s].fs[f] = 1
    /\ sh[s].batch_index > 0
    /\ sh[s].pc = "main"

\* C11: for every total_shards N > 1, every my_shard_index in [0, N) and
\* every value of the generator, the shard chosen for a periodic load lies
\* in [0, N) and is not my_shard_index.
C11_PeerIsAnotherShard ==
  fn_op = "OtherShardIndex" =>
    LET my_shard_index == fn_arg[1]
        total_shards == fn_arg[2]
    IN /\ fn_res \in 0..(total_shards - 1)
       /\ fn_res # my_shard_index

\* Shard 3 of 5 with the generator returning 2 chooses shard 1.
C11_Witness ==
  /\ fn_op = "OtherShardIndex"
  /\ fn_arg = <<3, 5, 2>>
  /\ fn_res = 1

\* What grading changes of shard s: its feature set, its corpus, its own
\* corpus file and features file, and the count of graded inputs.
GradedState(r, f) == <<r.fs, r.corpus, f.corpus, f.features, r.n_graded>>

\* C12: with exit_on_crash, a batch whose execution fails is not graded:
\* RunBatch never enters its grading loop with a batch that made the target
\* fail; from the failed execution to RunBatch's return the feature set,
\* the corpus, the corpus file and the features file stay as they were;
\* and RunBatch returns with the early exit requested with code 1.
C12_FailedBatchNotGraded ==
  [][\A s \in Shards :
       env.exit_on_crash =>
         /\ sh'[s].pc = "grade" =>
              \A k \in 1..Len(sh'[s].input_vec) : ~TargetFails(sh'[s].input_vec[k])
         /\ sh[s].pc \in {"main", "rerun", "report_crash"} /\ sh'[s].pc # "aborted" =>
              GradedState(sh'[s], files'[s]) = GradedState(sh[s], files[s])
         /\ (/\ sh[s].pc \in {"main", "rerun", "report_crash"}
             /\ sh'[s].n_exec = sh[s].n_exec + 1
             /\ sh'[s].pc \notin {"grade", "report_crash"}) =>
              /\ sh'[s].pc = (IF sh[s].run_ret = "rerun" \/ sh[s].pc = "rerun"
                              THEN "rerun" ELSE "post_batch")
              /\ sh'[s].early_exit
              /\ sh'[s].exit_code = 1]_vars

\* The first batch of the main loop has failed with exit_on_crash set, and
\* RunBatch has returned with the exit requested; nothing has been graded
\* in the main loop.
C12_Witness ==
  \E s \in Shards :
    /\ env.exit_on_crash
    /\ sh[s].pc = "post_batch"
    /\ sh[s].batch_index = 0
    /\ sh[s].num_crash_reports = 1
    /\ sh[s].early_exit
    /\ sh[s].exit_code = 1
    /\ sh[s].requested = <<1>>
    /\ crashes # {}

\* Whether RequestEarlyExit was called with exit code c in the run of r.
WasRequested(r, c) == \E k \in 1..Len(r.requested) : r.requested[k] = c

\* C13 as stated: ExitCode() is 0 if no early exit was requested, the
\* argument c of an external RequestEarlyExit(c) if the run was cancelled
\* from outside, and 1 if exit_on_crash triggered, however the external
\* request and the crashing batch interleave.
C13_ExitCodeByCause ==
  \A s \in Shards :
    LET r == sh[s]
    IN /\ r.requested = <<>> => r.exit_code = 0
       /\ WasRequested(r, ExternalExitCode) => r.exit_code = ExternalExitCode
       /\ (env.exit_on_crash /\ WasRequested(r, 1)) => r.exit_code = 1

\* C13, amended: ExitCode() is 0 if no early exit was requested, and else
\* the argument of the latest RequestEarlyExit call: c after an external
\* request alone, 1 after exit_on_crash alone, and whichever of the two
\* came last when an external request interleaves with a crashing batch.
C13_ExitCodeIsLatestRequest ==
  \A s \in Shards :
    LET r == sh[s]
        n == Len(r.requested)
    IN /\ r.early_exit <=> n > 0
       /\ r.exit_code = IF n = 0 THEN 0 ELSE r.requested[n]
       /\ (n > 0 /\ ~WasRequested(r, 1)) => r.exit_code = ExternalExitCode
       /\ (n > 0 /\ ~WasRequested(r, ExternalExitCode)) =>
            (env.exit_on_crash /\ r.exit_code = 1)

\* An external request arrived while ReportCrash was re-executing the
\* inputs of a failed batch, and exit_on_crash then requested the exit with
\* code 1: the exit code is 1, not the external one.
C13_Witness ==
  \E s \in Shards :
    /\ env.exit_on_crash
    /\ sh[s].requested = <<ExternalExitCode, 1>>
    /\ sh[s].exit_code = 1
    /\ sh[s].pc = "post_batch"

\* C14: a failed append to the shard's own corpus file or features file
\* (fewer bytes written than asked for) ends the shard at that point: the
\* step of the failed append leaves the shard aborted, and an aborted shard
\* takes no step, so it grades nothing, executes nothing and appends
\* nothing afterwards.
C14_FailedAppendAborts ==
  /\ [](\A s \in Shards : sh[s].pc = "aborted" => ~ENABLED <<ShardStep(s)>>_vars)
  /\ [][\A s \in Shards :
          /\ (io_faults' < io_faults /\ files'[s] # files[s]) => sh'[s].pc = "aborted"
          /\ (io_faults' < io_faults /\ sh'[s] # sh[s]) => sh'[s].pc = "aborted"
          /\ sh[s].pc = "aborted" => (sh'[s] = sh[s] /\ files'[s] = files[s])]_vars

\* An append to the own corpus file wrote part of a frame, and the shard
\* has aborted.
C14_Witness ==
  \E s \in Shards :
    /\ sh[s].pc = "aborted"
    /\ io_faults < MaxIoFaults
    /\ EndsInsideFrame(files[s].corpus)

\* C15: for a batch of n inputs with s = num_outputs_read, ReportCrash
\* tries the inputs in the order [s, 0, 1, ..., n-1] when s < n (the suspect
\* first, and again at its own position), and in the order [0, 1, ..., n-1]
\* when s >= n.
C15_TryOrder ==
  fn_op = "InputIdxsToTry" =>
    LET n == fn_arg[1]
        s == fn_arg[2]
        q == fn_res
    IN IF s < n
       THEN /\ Len(q) = n + 1
            /\ q[1] = s
            /\ \A k \in 1..n : q[k + 1] = k - 1
            /\ q[s + 2] = s
       ELSE /\ Len(q) = n
            /\ \A k \in 1..n : q[k] = k - 1

\* A batch of three inputs of which one output was read: the input of
\* index 1 is tried first and again after the input of index 0.
C15_Witness ==
  /\ fn_op = "InputIdxsToTry"
  /\ fn_arg = <<3, 1>>
  /\ fn_res = <<1, 0, 1, 2>>

\* C16: a ReportCrash call writes at most one reproducer.  It runs the
\* inputs alone in the try-order; the first one whose execution fails is
\* saved as crashes/<Hash(input)>, and ReportCrash returns without running
\* the inputs after it; an input that does not fail is followed by the next
\* of the order, and when none fails no crash file is written.  Nothing
\* else writes a crash file.
C16_OneReproducerPerReport ==
  [][\A s \in Shards :
       LET r == sh[s]
           one_input == r.input_vec[Head(r.crash_q) + 1]
       IN /\ (r.pc # "report_crash" /\ sh'[s].pc = "report_crash") =>
               /\ sh'[s].crash_q = InputIdxsToTry(Len(sh'[s].input_vec), sh'[s].suspect)
               /\ crashes' = crashes
          /\ (r.pc = "report_crash" /\ sh'[s].n_exec = r.n_exec + 1) =>
               /\ crashes' \in {crashes, crashes \cup {Hash(one_input)}}
               /\ crashes' # crashes =>
                    /\ TargetFails(one_input)
                    /\ sh'[s].pc # "report_crash"
                    /\ sh'[s].n_exec = r.n_exec + 1
               /\ sh'[s].pc = "report_crash" =>
                    /\ crashes' = crashes
                    /\ sh'[s].crash_q = Tail(r.crash_q)
                    /\ sh'[s].input_vec = r.input_vec
               /\ (sh'[s].pc # "report_crash" /\ Hash(one_input) \notin crashes') =>
                    Len(r.crash_q) = 1
          /\ (\A q \in Shards : sh[q].pc # "report_crash") => crashes' = crashes]_vars

\* ReportCrash has saved the suspect, the second input of a batch of two,
\* at its first try, and has returned with the rest of the try-order, the
\* inputs 0 and 1, not run.
C16_Witness ==
  \E s \in Shards :
    /\ env.exit_on_crash
    /\ sh[s].pc = "post_batch"
    /\ crashes = {Hash(CrashInput)}
    /\ sh[s].crash_q = <<0, 1>>
    /\ sh[s].num_crash_reports = 1

\* C17: num_crash_reports_ never exceeds max_num_crash_reports, and once
\* it has reached the cap a failing batch is not re-executed one input at
\* a time and writes no crash file: ReportCrash returns at once.
C17_CrashReportsCapped ==
  [][\A s \in Shards :
       LET r == sh[s]
       IN /\ r.num_crash_reports <= MaxNumCrashReports
          /\ sh'[s].num_crash_reports <= MaxNumCrashReports
          /\ (r.pc # "report_crash" /\ r.num_crash_reports >= MaxNumCrashReports) =>
               /\ sh'[s].pc # "report_crash"
               /\ crashes' = crashes
               /\ sh'[s].n_exec <= r.n_exec + 1
          /\ sh'[s].n_suppressed = r.n_suppressed + 1 =>
               /\ r.num_crash_reports = MaxNumCrashReports
               /\ sh'[s].num_crash_reports = r.num_crash_reports
               /\ sh'[s].n_exec = r.n_exec + 1
               /\ sh'[s].pc \notin {"report_crash", "aborted"}]_vars

\* A batch has failed after the cap was reached: no report was made for
\* it, and RunBatch is grading it.
C17_Witness ==
  \E s \in Shards :
    /\ sh[s].n_suppressed = 1
    /\ sh[s].num_crash_reports = MaxNumCrashReports
    /\ sh[s].pc = "grade"
    /\ \E k \in 1..Len(sh[s].input_vec) : TargetFails(sh[s].input_vec[k])

\* The least k with k * d >= n.
CeilDiv(n, d) == CHOOSE k \in 0..n : k * d >= n /\ (k = 0 \/ (k - 1) * d < n)

\* C18: without early exit and with a mutator that returns as many mutants
\* as it is asked for, the main loop runs exactly ceil(num_runs /
\* batch_size) batches, their mutant counts sum to num_runs, and new_runs <
\* num_runs holds at the start of every batch.
C18_BatchesSumToNumRuns ==
  [][\A s \in Shards :
       LET r == sh[s]
           batches == CeilDiv(env.num_runs, env.batch_size)
       IN (r.pc = "main" /\ ~r.early_exit /\ sh'[s] # r) =>
            /\ r.new_runs = Min(env.num_runs, r.batch_index * env.batch_size)
            /\ r.batch_index <= batches
            /\ r.batch_index < batches =>
                 /\ r.new_runs < env.num_runs
                 /\ sh'[s].pc \in {"grade", "report_crash", "post_batch"}
                 /\ sh'[s].n_exec = r.n_exec + 1
            /\ r.batch_index = batches =>
                 /\ r.new_runs = env.num_runs
                 /\ sh'[s].pc = "final"
                 /\ sh'[s].n_exec = r.n_exec]_vars

\* A run of num_runs inputs, not a multiple of batch_size, has ended without
\* early exit after ceil(num_runs / batch_size) batches.
C18_Witness ==
  \E s \in Shards :
    /\ sh[s].pc = "done"
    /\ ~sh[s].early_exit
    /\ env.num_runs % env.batch_size # 0
    /\ sh[s].new_runs = env.num_runs
    /\ sh[s].batch_index = (env.num_runs \div env.batch_size) + 1

\* C19 as stated: in every batch of the main loop the mutator is asked for,
\* and the target is run on, exactly env.batch_size mutants.
C19_BatchIsBatchSize ==
  [][\A s \in Shards :
       (sh[s].pc = "main" /\ sh'[s].pc \in {"grade", "report_crash"}) =>
         /\ Len(sh'[s].input_vec) = env.batch_size
         /\ sh'[s].n_exec = sh[s].n_exec + 1]_vars

\* C19, amended: in every batch of the main loop the mutator is asked for,
\* and the target is run on, exactly min(env.batch_size, num_runs -
\* new_runs) mutants: env.batch_size in every batch but the last, which
\* has the runs that remain.
C19_BatchIsMinOfBatchSizeAndRemaining ==
  [][\A s \in Shards :
       (sh[s].pc = "main" /\ sh'[s].pc \in {"grade", "report_crash"}) =>
         /\ Len(sh'[s].input_vec) = Min(env.batch_size, env.num_runs - sh[s].new_runs)
         /\ Len(sh'[s].input_vec) >= 1
         /\ sh[s].batch_index + 1 < NumberOfBatches =>
              Len(sh'[s].input_vec) = env.batch_size
         /\ sh'[s].n_exec = sh[s].n_exec + 1]_vars

\* The last batch of a run whose num_runs is not a multiple of batch_size:
\* RunBatch grades a batch of fewer than env.batch_size mutants.
C19_Witness ==
  \E s \in Shards :
    /\ sh[s].pc = "grade"
    /\ sh[s].run_ret = "main"
    /\ Len(sh[s].input_vec) < env.batch_size
    /\ Len(sh[s].input_vec) = env.num_runs - sh[s].new_runs

\* A step of a mutator function on the data: a call from outside, or a
\* round of a dispatcher.
MutatorStep == mu_op' \notin {"set_size_alignment", "set_max_len"}

SizeChangingFns == {"InsertBytes", "InsertFromDictionary", "EraseBytes", "CrossOverInsert"}

\* C21: with size alignment a and max length L (unbounded, or a multiple of
\* a), a size-changing function that succeeds (InsertBytes,
\* InsertFromDictionary, EraseBytes, CrossOverInsert, called from outside,
\* by a dispatcher or by CrossOver) leaves a size that is a multiple of a and at most L; no
\* other mutator function changes the size.
C21_SizeStaysAlignedAndBounded ==
  [][(MutatorStep /\ mu_data # <<>> /\ Len(mu_data') # Len(mu_data)) =>
       /\ Len(mu_data') % mu_size_alignment = 0
       /\ Len(mu_data') <= mu_max_len
       /\ mu_max_len = SizeMax \/ mu_max_len % mu_size_alignment = 0
       /\ mu_stack = <<>> =>
            \/ mu_op' \in {"CrossOverInsert", "CrossOver"}
            \/ mu_op' \in SizeChangingFns /\ mu_ret' = TRUE
       /\ mu_stack # <<>> => (mu_ret' = TRUE /\ mu_op' # "MutateSameSize")]_vars

\* With an alignment of 2 and a max length of 2, InsertBytes has made a
\* 1-byte input 2 bytes long.
C21_Witness ==
  /\ mu_op = "InsertBytes"
  /\ mu_ret = TRUE
  /\ mu_size_alignment = 2
  /\ mu_max_len = 2
  /\ Len(mu_data) = 2

\* max_len is unbounded or a multiple of size_alignment.
Compatible(size_alignment, max_len) ==
  max_len = SizeMax \/ max_len % size_alignment = 0

\* C22: after any sequence of set_size_alignment and set_max_len calls
\* max_len is unbounded or a multiple of size_alignment; a call whose value
\* would break this returns false and changes neither field, and every other
\* call returns true and sets its own field only.
C22_SettersKeepMaxLenAligned ==
  /\ [](Compatible(mu_size_alignment, mu_max_len))
  /\ [][/\ fn_op' = "set_size_alignment" =>
            IF Compatible(fn_arg'[1], mu_max_len)
            THEN /\ mu_ret' = TRUE
                 /\ mu_size_alignment' = fn_arg'[1]
                 /\ mu_max_len' = mu_max_len
            ELSE /\ mu_ret' = FALSE
                 /\ mu_size_alignment' = mu_size_alignment
                 /\ mu_max_len' = mu_max_len
        /\ fn_op' = "set_max_len" =>
            IF Compatible(mu_size_alignment, fn_arg'[1])
            THEN /\ mu_ret' = TRUE
                 /\ mu_max_len' = fn_arg'[1]
                 /\ mu_size_alignment' = mu_size_alignment
            ELSE /\ mu_ret' = FALSE
                 /\ mu_size_alignment' = mu_size_alignment
                 /\ mu_max_len' = mu_max_len]_vars

\* set_size_alignment(3) with max_len = 4 has returned false, and the
\* alignment is still 2.
C22_Witness ==
  /\ fn_op = "set_size_alignment"
  /\ fn_arg = <<3>>
  /\ mu_ret = FALSE
  /\ mu_size_alignment = 2
  /\ mu_max_len = 4

\* C24: for an alignment a, a max length L that is unbounded or a multiple
\* of a, a current size c <= L and any to_add, r = RoundUpToAdd(c, to_add)
\* leaves c + r <= L; when r > 0 the size c + r is a multiple of a; and
\* r = 0 when c >= L.
C24_RoundUpToAddAlignedAndCapped ==
  (fn_op = "RoundUpToAdd" /\ fn_arg[1] <= mu_max_len) =>
    /\ fn_res >= 0
    /\ fn_arg[1] + fn_res <= mu_max_len
    /\ fn_res > 0 => (fn_arg[1] + fn_res) % mu_size_alignment = 0
    /\ fn_arg[1] >= mu_max_len => fn_res = 0

\* With an alignment of 4 and a max length of 16, RoundUpToAdd(5, 9) is 11:
\* the size 14 is rounded up to 16.
C24_Witness ==
  /\ fn_op = "RoundUpToAdd"
  /\ mu_size_alignment = 4
  /\ mu_max_len = 16
  /\ fn_arg = <<5, 9>>
  /\ fn_res = 11

Matching(pairs, bytes) == {p \in pairs : IsPrefix(p.A, bytes)}

\* Every suggestion is the B of a pair whose A is a prefix of the query, and
\* no more suggestions are made than the capacity.
SuggestionsMatch ==
  /\ Len(fn_res) <= fn_arg[3]
  /\ \A i \in DOMAIN fn_res :
       \E p \in Matching(fn_arg[2], fn_arg[1]) : p.B = fn_res[i]
  /\ \A i, j \in DOMAIN fn_res : i # j => fn_res[i] # fn_res[j]

\* No pair whose A is not a prefix of the query sorts between the first
\* bytes of the query and a pair whose A is a prefix of it.
NoGap(pairs, bytes) ==
  \A p \in Matching(pairs, bytes) :
    \A q \in pairs \ Matching(pairs, bytes) :
      DictEntryLess(q.A, Prefix(bytes, Min(Len(bytes), kMinEntrySize))) \/ PairLess(p, q)

MainGradeStep ==
  /\ sh[0].pc = "grade"
  /\ sh[0].run_ret = "main"
  /\ ~sh[0].early_exit
  /\ sh'[0].pc # "aborted"

GradedInput == sh[0].input_vec[sh[0].i]

GradedFeatures == PruneFrequentFeatures(sh[0].fs, ResultFeatures(sh[0], sh[0].i))

GradedIsAdmitted ==
  /\ CountUnseen(sh[0].fs, GradedFeatures) > 0
  /\ GradedInput \notin env.input_filter

GradedPassesFunctionFilter ==
  \/ env.function_filter = {}
  \/ \E k \in DOMAIN ResultFeatures(sh[0], sh[0].i) :
       ResultFeatures(sh[0], sh[0].i)[k] \in env.function_filter

FrequenciesIncremented == sh'[0].fs # sh[0].fs

AddedToCorpus ==
  /\ Len(sh'[0].corpus) = Len(sh[0].corpus) + 1
  /\ sh'[0].corpus[Len(sh'[0].corpus)].data = GradedInput

AppendedToCorpusFile ==
  files'[0].corpus = BlobFileAppend(files[0].corpus, GradedInput)

AppendedToFeaturesFile ==
  files'[0].features =
    BlobFileAppend(files[0].features, PackFeaturesAndHash(GradedInput, GradedFeatures))

HashOfRecord(blob) == Suffix(blob, Len(blob) - HashLen + 1)

\* Every features record of the own features file of shard s names, by its
\* hash, an input that is whole in the own corpus file.
FeaturesReferToCorpus(s) ==
  \A k \in DOMAIN FeaturesWritten(s) :
    \E j \in DOMAIN InputsWritten(s) :
      Hash(InputsWritten(s)[j]) = HashOfRecord(FeaturesWritten(s)[k])

\* C28 as stated: at every instant every features record in a shard's own
\* features file refers, by its hash, to an input whose whole record is
\* already in that shard's own corpus file.
C28_FeaturesReferToCorpus == FeaturesReferToCorpus(0)


\* The inputs that are whole in the corpus file of index d.
CorpusInputs(d) == {InputsWritten(d)[j] : j \in DOMAIN InputsWritten(d)}

\* C28: at every instant every features record in a shard's own features
\* file refers, by its hash, to an input whose whole record is in that
\* shard's own corpus file or, when merge_from is set, in the corpus file of
\* the merged shard, whose inputs Rerun writes features records for before
\* any of them is appended to the own corpus file.
C28_FeaturesReferToCorpusOrMerged ==
  \A k \in DOMAIN FeaturesWritten(0) :
    \E input \in CorpusInputs(0) \cup
                   (IF env.merge_from THEN CorpusInputs(MergeFromIndex) ELSE {}) :
      Hash(input) = HashOfRecord(FeaturesWritten(0)[k])

\* Without merge_from, a main-loop batch has admitted the input <<0>>: its
\* features record is in the features file and the input in the corpus file.
C28_Witness ==
  /\ ~env.merge_from
  /\ <<0>> \in CorpusInputs(0)
  /\ \E k \in DOMAIN FeaturesWritten(0) : HashOfRecord(FeaturesWritten(0)[k]) = Hash(<<0>>)

\* Shard 0 runs for the second time and is in, or just after, the load of
\* its own files.
SecondStartupLoad ==
  /\ sh[0].restarts = 1
  /\ sh[0].load_ctx.ret = "startup"

\* The inputs the merged shard's files hold with features.
MergedWithFeatures ==
  LET merged == ReadShard(files[MergeFromIndex].corpus, files[MergeFromIndex].features)
  IN {merged[k].input : k \in {j \in DOMAIN merged : merged[j].features # <<>>}}

RerunReturned == sh[0].pc = "merge"

\* What Rerun leaves, whatever it executes: to_rerun is empty, the corpus
\* file is as it was, and the features file holds one record for each
\* queued input (here each input of the corpus file), and no batch has more
\* than batch_size inputs.
RerunEffects ==
  /\ (sh[0].run_ret = "rerun") => Len(sh[0].input_vec) <= env.batch_size
  /\ RerunReturned =>
       /\ sh[0].to_rerun = <<>>
       /\ files[0].corpus \in RerunSeedCorpora
       /\ Len(FeaturesWritten(0)) = Len(InputsWritten(0))
       /\ \A input \in Inputs :
            Cardinality({k \in DOMAIN FeaturesWritten(0) :
                           HashOfRecord(FeaturesWritten(0)[k]) = Hash(input)})
              = Cardinality({k \in DOMAIN InputsWritten(0) : InputsWritten(0)[k] = input})

\* The executions of a Rerun that runs each queued input once, in batches
\* of at most batch_size, after the warm-up execution of the startup.
RerunExecutions == 1 + CeilDiv(Len(InputsWritten(0)), env.batch_size)

PeerLoadStep(s) ==
  /\ sh[s].load_ctx.ret = "peer"
  /\ sh'[s].pc # sh[s].pc \/ sh'[s].load_q # sh[s].load_q

\* C31: a periodic load of a peer shard (LoadShard with rerun = false) never
\* executes anything and never appends to a file; a peer input without
\* features is skipped, neither added to the corpus nor queued for Rerun;
\* only the feature set and the corpus in memory change, besides the
\* position of the load itself.
C31_PeerLoadOnlyChangesMemory ==
  [][\A s \in Shards :
       PeerLoadStep(s) =>
         /\ ~sh[s].load_ctx.rerun
         /\ sh'[s].n_exec = sh[s].n_exec
         /\ files' = files
         /\ crashes' = crashes
         /\ sh'[s].to_rerun = <<>>
         /\ [sh'[s] EXCEPT !.pc = sh[s].pc, !.load_q = sh[s].load_q,
                           !.load_ctx = sh[s].load_ctx, !.fs = sh[s].fs,
                           !.corpus = sh[s].corpus, !.n_graded = sh[s].n_graded]
              = sh[s]
         /\ (/\ sh[s].pc = "load_cb"
             /\ sh[s].load_q # <<>>
             /\ Head(sh[s].load_q).features = <<>>) =>
              /\ sh'[s].corpus = sh[s].corpus
              /\ sh'[s].fs = sh[s].fs]_vars

\* The callbacks of a periodic load of shard 1, whose corpus file holds the
\* input <<1>> without features, are over: the corpus of shard 0 has no <<1>>.
C31_Witness ==
  /\ sh[0].load_ctx.ret = "peer"
  /\ sh[0].pc = "rerun"
  /\ ~sh[0].early_exit
  /\ files[1] = [corpus |-> BlobFileAppend(<<>>, <<1>>), features |-> <<>>]
  /\ \A k \in DOMAIN sh[0].corpus : sh[0].corpus[k].data # <<1>>

\* The data of the corpus records from index idx (counted from 0) on.
CorpusDataFrom(corpus, idx) ==
  [k \in 1..(Len(corpus) - idx) |-> corpus[idx + k].data]

\* C32: after MergeFromOtherCorpus exactly the inputs the merge load added
\* to the corpus in memory (those at the indices from the size before the
\* load to the size after it) have been appended to the own corpus file, each
\* once and in the order they were added; if the load added nothing, no file
\* changes.  (A process ended by a failed CHECK does not return.)
C32_MergeAppendsWhatTheLoadAdded ==
  [][\A s \in Shards :
       /\ (sh[s].pc = "merge" /\ sh'[s].pc = "load") =>
            sh'[s].initial_corpus_size = Len(sh[s].corpus)
       /\ (sh[s].load_ctx.ret = "merge" /\ sh'[s].pc # "aborted") =>
            /\ sh'[s].initial_corpus_size = sh[s].initial_corpus_size
            /\ Len(sh'[s].corpus) >= Len(sh[s].corpus)
            /\ \A k \in DOMAIN sh[s].corpus : sh'[s].corpus[k].data = sh[s].corpus[k].data
            /\ files'[s].corpus = files[s].corpus
       /\ (sh[s].pc = "merge_append" /\ sh'[s].pc = "init") =>
            LET added == CorpusDataFrom(sh[s].corpus, sh[s].initial_corpus_size)
            IN /\ sh'[s].corpus = sh[s].corpus
               /\ InputsWritten(s)' = InputsWritten(s) \o added
               /\ files'[s].corpus =
                    files[s].corpus
                      \o Flatten([k \in DOMAIN added |-> PackBytesForAppendFile(added[k])])
               /\ files'[s].features = files[s].features
               /\ \A d \in FileIndices \ {s} : files'[d] = files[d]
               /\ (added = <<>>) => files' = files]_vars

\* The merge has returned after it appended the two inputs its load added,
\* the first from the callback and the second from Rerun.
C32_Witness ==
  /\ sh[0].pc = "init"
  /\ env.merge_from
  /\ [k \in DOMAIN sh[0].corpus |-> sh[0].corpus[k].data] = << <<0>>, <<1>> >>
  /\ InputsWritten(0) = << <<0>>, <<1>> >>

\* C33: Prune runs only at the end of a round of the main loop, never in
\* LoadShard, Rerun or MergeFromOtherCorpus: the corpus loses records in no
\* other step of a running process, the number of active records does not
\* decrease while a LoadShard call is under way, and MergeFromOtherCorpus
\* never finds the corpus smaller than before its load.
C33_PruneOnlyAtEndOfBatch ==
  /\ [][\A s \in Shards :
          /\ (NumActive(sh'[s].corpus) < NumActive(sh[s].corpus) /\ sh'[s].pc # "aborted") =>
               /\ sh[s].pc = "prune"
               /\ sh[s].load_ctx = NoLoad
               /\ sh'[s].last_prune = NumActive(sh'[s].corpus)
          /\ (sh[s].load_ctx # NoLoad /\ sh'[s].pc # "aborted") =>
               NumActive(sh'[s].corpus) >= NumActive(sh[s].corpus)]_vars
  /\ [](\A s \in Shards :
          (sh[s].pc = "merge_append") =>
             NumActive(sh[s].corpus) >= sh[s].initial_corpus_size)

\* The merge load has returned to MergeFromOtherCorpus with more active
\* records than before it, on a corpus that was not empty.
C33_Witness ==
  /\ sh[0].pc = "merge_append"
  /\ sh[0].initial_corpus_size > 0
  /\ NumActive(sh[0].corpus) > sh[0].initial_corpus_size

\* A shard process between the end of its startup and the end of its main
\* loop: at the head of a round, in its batch, its peer load or its prune.
InMainLoop(r) ==
  \/ r.pc \in {"main", "post_batch", "prune"}
  \/ r.pc \in {"grade", "report_crash"} /\ r.run_ret = "main"
  \/ r.load_ctx.ret = "peer"

C35_PruneIffGrownEnough ==
  /\ [][\A s \in Shards :
          (sh[s].pc = "prune" /\ sh'[s].pc = "main") =>
             IF /\ env.prune_frequency # 0
                /\ NumActive(sh[s].corpus) > sh[s].last_prune + env.prune_frequency
             THEN /\ sh'[s].corpus \in PruneResults(sh[s].fs, sh[s].corpus, MaxCorpusSize)
                  /\ sh'[s].last_prune = NumActive(sh'[s].corpus)
             ELSE /\ sh'[s].corpus = sh[s].corpus
                  /\ sh'[s].last_prune = sh[s].last_prune]_vars
  /\ [](\A s \in Shards :
          (sh[s].pc = "main" /\ env.prune_frequency # 0) =>
             NumActive(sh[s].corpus) <= sh[s].last_prune + env.prune_frequency)

\* The head of a round after a prune that removed records: the corpus holds
\* fewer records than the corpus file has inputs, and
\* corpus_size_at_last_prune is the size of the corpus.
C35_Witness ==
  /\ sh[0].pc = "main"
  /\ env.prune_frequency # 0
  /\ sh[0].batch_index > 0
  /\ NumActive(sh[0].corpus) < Len(InputsWritten(0))
  /\ sh[0].last_prune = NumActive(sh[0].corpus)

\* How often an input is whole in a corpus file.
Occurrences(corpus_file, input) ==
  LET blobs == UnpackBytesFromAppendFile(corpus_file).unpacked
  IN Cardinality({k \in DOMAIN blobs : blobs[k] = input})

\* An export has run: the first, or the same one again.
Exported == fn_op \in {"ExportCorpusFromLocalDir", "ExportCorpusFromLocalDir again"}

\* Running the same export a second time appends nothing.
SecondExportAppendsNothing ==
  (fn_op = "ExportCorpusFromLocalDir again") => (files = fn_res[1] /\ fn_res[2] = 0)

\* C36: ExportCorpusFromLocalDir appends an input to a shard's corpus file
\* only if the shard does not have it already: after an export no input that
\* was absent from the shard before it occurs more than once in the shard's
\* corpus file, and the same export run a second time appends nothing.
C36_ExportAppendsAbsentInputsOnce ==
  /\ Exported =>
       \A shard \in Shards : \A input \in Inputs :
         (Occurrences(fn_res[1][shard].corpus, input) = 0) =>
            Occurrences(files[shard].corpus, input) <= 1
  /\ SecondExportAppendsNothing

\* The functions that were called and returned false, in a row, by the
\* ApplyOneOf calls that are running: outermost first.
Iters == [k \in DOMAIN mu_stack |-> mu_stack[k].iter]

\* The rounds the running dispatchers have been through, as one number
\* that grows with every round: the rounds of the outer ApplyOneOf count
\* for more than all the rounds of an inner one.
Rank ==
  IF mu_stack = <<>> THEN 0
  ELSE mu_stack[1].iter * (kApplyOneOfIters + 2)
         + (IF Len(mu_stack) > 1 THEN mu_stack[2].iter + 1 ELSE 0)

MaxRank == kApplyOneOfIters * (kApplyOneOfIters + 2) + kApplyOneOfIters + 1

\* C37: a running ApplyOneOf calls at most 10 functions of its array; it
\* stops and returns true at the first that returns true (the data are those
\* that function left), goes on without a change of the data after one that
\* returns false, and returns false only after 10 calls in a row returned
\* false; so it terminates: every round of a running dispatcher increases a
\* rank that is bounded.
C37_ApplyOneOfTriesTenTimes ==
  /\ [](\A k \in DOMAIN mu_stack : mu_stack[k].iter <= kApplyOneOfIters)
  /\ [][(mu_stack # <<>>) =>
          LET depth == Len(mu_stack)
              top == mu_stack[depth]
          IN /\ (mu_stack' = <<>>) =>
                  \/ /\ mu_ret' = FALSE
                     /\ depth = 1
                     /\ top.iter = kApplyOneOfIters
                     /\ mu_data' = mu_data
                  \/ /\ mu_ret' = TRUE
                     /\ top.iter < kApplyOneOfIters
                     /\ \E mut_idx \in DOMAIN Fns(top.fn) :
                          /\ Fns(top.fn)[mut_idx] \notin Dispatchers
                          /\ [data |-> mu_data', ok |-> TRUE]
                               \in Primitive(Fns(top.fn)[mut_idx], mu_data)
             /\ (mu_stack' # <<>>) =>
                  /\ mu_data' = mu_data
                  /\ \/ /\ Len(mu_stack') = depth
                        /\ top.iter < kApplyOneOfIters
                        /\ Iters' = [Iters EXCEPT ![depth] = @ + 1]
                     \/ /\ Len(mu_stack') = depth + 1
                        /\ top.iter < kApplyOneOfIters
                        /\ Iters' = Append(Iters, 0)
                     \/ /\ Len(mu_stack') = depth - 1
                        /\ top.iter = kApplyOneOfIters
                        /\ Iters' = [SubSeq(Iters, 1, depth - 1) EXCEPT ![depth - 1] = @ + 1]]_mu_stack
  /\ [](Len(mu_stack) <= 2 /\ Rank <= MaxRank)
  /\ [][(mu_stack # <<>> /\ mu_stack' # <<>>) => Rank' > Rank]_mu_stack

\* MutateDecreaseSize has returned false: EraseBytes returned false 10
\* times in a row on data of one byte.
C37_Witness ==
  /\ mu_stack = <<>>
  /\ mu_op = "MutateDecreaseSize"
  /\ mu_ret = FALSE
  /\ Len(mu_data) = 1

=============================================================================
